---- MODULE Spec2Model ----
(***************************************************************************)
(* Model of the AWS Crossplane role check of privatecloud-cli:             *)
(*   pkg/handler/awscrossplanerolechecker (placeholder resolution, the     *)
(*   structural diff of policy documents, the superset filter) and         *)
(*   pkg/handler/awschecker (the caller of the role check).                *)
(*                                                                         *)
(* Representation.                                                         *)
(*   string       a sequence of atoms (TLA+ strings); a placeholder token  *)
(*                such as ${ACCOUNT_ID} is one atom, so strings.ReplaceAll *)
(*                is the replacement of an atom by a sequence of atoms.    *)
(*   *T           a sequence of length 0 (nil) or 1 (pointer to a value).  *)
(*   []T          a sequence.                                              *)
(*   map[K]V      a function whose domain is the set of keys.              *)
(*   struct       a record with the fields of the Go struct.               *)
(***************************************************************************)
EXTENDS Integers, Sequences, FiniteSets, TLC

Nil == <<>>

Ptr(v) == <<v>>

\* util.Deref: the zero value (the empty string) for a nil pointer.
Deref(p) == IF p = Nil THEN <<>> ELSE p[1]

\* A one-atom string.
S(a) == <<a>>

(***************************************************************************)
(* Placeholder resolution.                                                 *)
(***************************************************************************)
clusterNamePlaceholder == "${CLUSTER_NAME}"

accountIDPlaceholder == "${ACCOUNT_ID}"

oidcURLPlaceholder == "${OIDC_ID}"

\* strings.ReplaceAll(s, old, new), old being one atom.
RECURSIVE ReplaceAll(_, _, _)
ReplaceAll(s, old, new) ==
    IF s = <<>> THEN <<>>
    ELSE (IF Head(s) = old THEN new ELSE <<Head(s)>>) \o ReplaceAll(Tail(s), old, new)

\* strings.Replace(s, old, new, 1): the first occurrence only.
RECURSIVE ReplaceFirst(_, _, _)
ReplaceFirst(s, old, new) ==
    IF s = <<>> THEN <<>>
    ELSE IF Head(s) = old THEN new \o Tail(s)
    ELSE <<Head(s)>> \o ReplaceFirst(Tail(s), old, new)

\* A resolution that replaces the first occurrence of each placeholder only.
fillPlaceholdersStringFirstOnly(s, c) ==
    ReplaceFirst(
        ReplaceFirst(
            ReplaceFirst(s, clusterNamePlaceholder, c.ClusterName),
            accountIDPlaceholder, c.AccountID),
        oidcURLPlaceholder, c.OIDCURL)

fillPlaceholdersString(s, c) ==
    ReplaceAll(
        ReplaceAll(
            ReplaceAll(s, clusterNamePlaceholder, c.ClusterName),
            accountIDPlaceholder, c.AccountID),
        oidcURLPlaceholder, c.OIDCURL)

\* A resolution of the values of a map that leaves its keys as they are.
fillPlaceholdersMapValuesOnly(m, c) == [k \in DOMAIN m |-> fillPlaceholdersString(m[k], c)]

\* newMap[fill(key)] = fill(value) for every entry of m. Two keys that resolve
\* to the same string would leave the entry written last by Go's map iteration;
\* the baselines have one key per map, where the choice below is unique.
fillPlaceholdersMap(m, c) ==
    LET newKeys == {fillPlaceholdersString(k, c) : k \in DOMAIN m}
    IN  [nk \in newKeys |->
            fillPlaceholdersString(
                m[CHOOSE k \in DOMAIN m : fillPlaceholdersString(k, c) = nk], c)]

(***************************************************************************)
(* The policy document model.                                              *)
(***************************************************************************)
rolePolicyCondition(stringEquals, stringLike) ==
    [StringEquals |-> stringEquals, StringLike |-> stringLike]

rolePolicyPrincipal(federated) == [Federated |-> federated]

rolePolicyStatement(condition, effect, action, notAction, principal, resource, sid) ==
    [Condition |-> condition, Effect |-> effect, Action |-> action,
     NotAction |-> notAction, Principal |-> principal, Resource |-> resource,
     SID |-> sid]

rolePolicyDocument(version, statement) == [Version |-> version, Statement |-> statement]

\* rolePolicyDocument{}: the zero value.
EmptyDocument == rolePolicyDocument(Nil, <<>>)

\* The expected trust policy, as the source initialises it.
TemplateAssumeRolePolicyDocument ==
    rolePolicyDocument(Ptr(S("2012-10-17")), <<
        rolePolicyStatement(
            Ptr(rolePolicyCondition(Nil,
                Ptr((<<oidcURLPlaceholder, ":sub">> :> S("system:serviceaccount:crossplane:aws-*"))))),
            Ptr(S("Allow")),
            Ptr(<<S("sts:AssumeRoleWithWebIdentity")>>),
            Nil,
            Ptr(rolePolicyPrincipal(
                Ptr(<<"arn:aws:iam::", accountIDPlaceholder, ":oidc-provider/", oidcURLPlaceholder>>))),
            Nil,
            Nil)
    >>)

PolicySuffixes == {"boundary", "policy", "redis"}

\* The expected managed policies, as the source initialises them. The action
\* lists are cut to their first two entries and the statement lists to the
\* statements named here; every kind of statement of the source is present: a
\* NotAction list, Deny and Allow, a Resource with placeholders, a
\* Condition.StringEquals whose value has placeholders, a one-element list.
TemplatePolicyDocuments ==
    [suffix \in PolicySuffixes |->
        CASE suffix = "boundary" ->
            rolePolicyDocument(Ptr(S("2012-10-17")), <<
                rolePolicyStatement(Nil, Ptr(S("Allow")), Nil,
                    Ptr(<<S("support:*"), S("organizations:*")>>),
                    Nil, Ptr(S("*")), Ptr(S("AllowAllActionsApartFromListed")))
            >>)
        [] suffix = "policy" ->
            rolePolicyDocument(Ptr(S("2012-10-17")), <<
                rolePolicyStatement(Nil, Ptr(S("Deny")),
                    Ptr(<<S("iam:Update*"), S("iam:Put*")>>),
                    Nil, Nil,
                    Ptr(<<"arn:aws:iam::", accountIDPlaceholder, ":role/web-identity/",
                          clusterNamePlaceholder, "/crossplane-provider-",
                          clusterNamePlaceholder>>),
                    Ptr(S("DenyAlteringOwnRole"))),
                rolePolicyStatement(
                    Ptr(rolePolicyCondition(
                        Ptr((S("iam:PermissionsBoundary") :>
                            <<"arn:aws:iam::", accountIDPlaceholder, ":policy/web-identity/",
                              clusterNamePlaceholder, "/crossplane-provider-",
                              clusterNamePlaceholder, "-boundary">>)),
                        Nil)),
                    Ptr(S("Allow")),
                    Ptr(<<S("iam:PutRolePermissionsBoundary"), S("iam:CreateRole")>>),
                    Nil, Nil,
                    Ptr(<<"arn:aws:iam::", accountIDPlaceholder, ":role/web-identity/",
                          clusterNamePlaceholder, "/crossplane/*">>),
                    Ptr(S("EnforcePermissionBoundaryOnSpecificIAMActions")))
            >>)
        [] suffix = "redis" ->
            rolePolicyDocument(Ptr(S("2012-10-17")), <<
                rolePolicyStatement(Nil, Ptr(S("Allow")),
                    Ptr(<<S("ec2:DescribeSecurityGroups"), S("ec2:DescribeSecurityGroupRules")>>),
                    Nil, Nil, Ptr(S("*")), Ptr(S("AllowEC2ForRedisInfrastructure"))),
                rolePolicyStatement(Nil, Ptr(S("Allow")),
                    Ptr(<<S("iam:CreateServiceLinkedRole")>>),
                    Nil, Nil, Ptr(S("*")), Ptr(S("AllowIAMForServiceLinkedRoles")))
            >>)]

(***************************************************************************)
(* The structural differ: diff.Diff of github.com/r3labs/diff/v3 as        *)
(* validatePolicyDocument calls it, with the library's default options     *)
(* (slices are compared without regard to order, struct values are         *)
(* expanded field by field).                                               *)
(*                                                                         *)
(* A reflect.Value is Invalid (<<>>) or Val(v) (<<v>>).                    *)
(***************************************************************************)
CREATE == "create"

UPDATE == "update"

DELETE == "delete"

Invalid == <<>>

Val(v) == <<v>>

\* A changelog entry. From and To hold nil (<<>>), a string (Ptr(s)) or a
\* pointer (PtrValue): the failure detail prints a pointer as its address.
Change(type, path, from, to) == [Type |-> type, Path |-> path, From |-> from, To |-> to]

PtrValue == Ptr(S("(pointer)"))

\* idstring: fmt.Sprint of a slice index or of a map key.
idstring(k) == S(ToString(k))

RECURSIVE Concat(_)
Concat(ss) == IF ss = <<>> THEN <<>> ELSE Head(ss) \o Concat(Tail(ss))

RECURSIVE SortedSeq(_)
SortedSeq(set) ==
    IF set = {} THEN <<>>
    ELSE LET m == CHOOSE x \in set : \A y \in set : x <= y
         IN  <<m>> \o SortedSeq(set \ {m})

\* The elements of a set in the order that the sequence order gives them.
OrderBy(set, order) == SelectSeq(order, LAMBDA k : k \in set)

\* The orders in which a map iteration may yield the keys of a set.
KeyOrders(set) ==
    {p \in [1..Cardinality(set) -> set] : \A i, j \in DOMAIN p : p[i] = p[j] => i = j}

diffString(path, a, b) ==
    IF a = Invalid THEN <<Change(CREATE, path, Nil, Ptr(b[1]))>>
    ELSE IF b = Invalid THEN <<Change(DELETE, path, Ptr(a[1]), Nil)>>
    ELSE IF a[1] # b[1] THEN <<Change(UPDATE, path, Ptr(a[1]), Ptr(b[1]))>>
    ELSE <<>>

\* diffPtr; D is the differ of the pointed-to kind.
diffPtr(path, a, b, D(_, _, _)) ==
    IF a = Invalid
    THEN IF b[1] # Nil THEN D(path, Invalid, Val(b[1][1]))
         ELSE <<Change(CREATE, path, Nil, PtrValue)>>
    ELSE IF b = Invalid
    THEN IF a[1] # Nil THEN D(path, Val(a[1][1]), Invalid)
         ELSE <<Change(DELETE, path, PtrValue, Nil)>>
    ELSE IF a[1] = Nil /\ b[1] = Nil THEN <<>>
    ELSE IF a[1] = Nil THEN <<Change(UPDATE, path, Nil, PtrValue)>>
    ELSE IF b[1] = Nil THEN <<Change(UPDATE, path, PtrValue, Nil)>>
    ELSE D(path, Val(a[1][1]), Val(b[1][1]))

\* sliceTracker.has, for every element of the first slice in turn: the indices
\* of the elements that find no unmatched equal element in the second slice.
\* eq[i][j] says that the nested diff of element i and element j is empty.
RECURSIVE sliceTrackerMissing(_, _, _, _, _, _)
sliceTrackerMissing(i, n, m, eq, used, missing) ==
    IF i > n THEN missing
    ELSE LET free == {j \in 1..m : j \notin used /\ eq[i][j]}
         IN  IF free = {}
             THEN sliceTrackerMissing(i + 1, n, m, eq, used, missing \cup {i})
             ELSE LET j == CHOOSE x \in free : \A y \in free : x <= y
                  IN  sliceTrackerMissing(i + 1, n, m, eq, used \cup {j}, missing)

\* diffSliceGeneric and diffComparative for a slice of pointers: the elements
\* of a that b lacks and the elements of b that a lacks are diffed by index.
diffSliceGeneric(path, a, b, D(_, _, _)) ==
    LET n == Len(a)
        m == Len(b)
        same(x, y) == diffPtr(<<>>, Val(Ptr(x)), Val(Ptr(y)), D) = <<>>
        eqAB == [i \in 1..n |-> [j \in 1..m |-> same(b[j], a[i])]]
        eqBA == [j \in 1..m |-> [i \in 1..n |-> same(a[i], b[j])]]
        missingA == sliceTrackerMissing(1, n, m, eqAB, {}, {})
        missingB == sliceTrackerMissing(1, m, n, eqBA, {}, {})
        keys == SortedSeq(missingA) \o SortedSeq(missingB \ missingA)
    IN  Concat([x \in 1..Len(keys) |->
            LET k == keys[x]
            IN  diffPtr(path \o <<idstring(k - 1)>>,
                        IF k \in missingA THEN Val(Ptr(a[k])) ELSE Invalid,
                        IF k \in missingB THEN Val(Ptr(b[k])) ELSE Invalid,
                        D)])

\* diffMap and diffComparative for a map[string]*string; keyOrder is the order
\* in which Go's map iteration yields the keys.
diffMapOrdered(path, a, b, keyOrder) ==
    LET keys == OrderBy(DOMAIN a[1], keyOrder) \o
                OrderBy(DOMAIN b[1] \ DOMAIN a[1], keyOrder)
    IN  Concat([x \in 1..Len(keys) |->
            LET k == keys[x]
            IN  diffPtr(path \o <<k>>,
                        IF k \in DOMAIN a[1] THEN Val(Ptr(a[1][k])) ELSE Invalid,
                        IF k \in DOMAIN b[1] THEN Val(Ptr(b[1][k])) ELSE Invalid,
                        diffString)])

\* diffStruct of two rolePolicyCondition values.
diffStructCondition(path, a, b, keyOrder) ==
    LET diffMap(p, x, y) == diffMapOrdered(p, x, y, keyOrder)
    IN  diffPtr(path \o <<S("StringEquals")>>,
                Val(a[1].StringEquals), Val(b[1].StringEquals), diffMap)
        \o
        diffPtr(path \o <<S("StringLike")>>,
                Val(a[1].StringLike), Val(b[1].StringLike), diffMap)

\* diffStruct of two rolePolicyPrincipal values.
diffStructPrincipal(path, a, b) ==
    diffPtr(path \o <<S("Federated")>>, Val(a[1].Federated), Val(b[1].Federated), diffString)

StatementFields == <<"Condition", "Effect", "Action", "NotAction", "Principal", "Resource", "SID">>

\* structValues: a statement that has no counterpart gives one entry for each
\* of its fields that is set.
structValues(type, path, s) ==
    Concat([f \in 1..Len(StatementFields) |->
        IF s[StatementFields[f]] = Nil THEN <<>>
        ELSE <<Change(type, path \o <<S(StatementFields[f])>>,
                      IF type = DELETE THEN PtrValue ELSE Nil,
                      IF type = CREATE THEN PtrValue ELSE Nil)>>])

\* diffStruct of two rolePolicyStatement values, field by field in the order
\* of the struct's declaration.
diffStructStatement(path, a, b, keyOrder) ==
    IF a = Invalid THEN structValues(CREATE, path, b[1])
    ELSE IF b = Invalid THEN structValues(DELETE, path, a[1])
    ELSE LET diffCondition(p, x, y) == diffStructCondition(p, x, y, keyOrder)
             diffStrings(p, x, y) == diffSliceGeneric(p, x[1], y[1], diffString)
         IN  diffPtr(path \o <<S("Condition")>>, Val(a[1].Condition), Val(b[1].Condition), diffCondition)
             \o diffPtr(path \o <<S("Effect")>>, Val(a[1].Effect), Val(b[1].Effect), diffString)
             \o diffPtr(path \o <<S("Action")>>, Val(a[1].Action), Val(b[1].Action), diffStrings)
             \o diffPtr(path \o <<S("NotAction")>>, Val(a[1].NotAction), Val(b[1].NotAction), diffStrings)
             \o diffPtr(path \o <<S("Principal")>>, Val(a[1].Principal), Val(b[1].Principal), diffStructPrincipal)
             \o diffPtr(path \o <<S("Resource")>>, Val(a[1].Resource), Val(b[1].Resource), diffString)
             \o diffPtr(path \o <<S("SID")>>, Val(a[1].SID), Val(b[1].SID), diffString)

\* diff.Diff(a, b, diff.SliceOrdering(true)): statements diffed by position.
DiffSliceOrdering(a, b, keyOrder) ==
    LET diffStatement(p, x, y) == diffStructStatement(p, x, y, keyOrder)
        n == IF Len(a.Statement) > Len(b.Statement) THEN Len(a.Statement) ELSE Len(b.Statement)
    IN  diffPtr(<<S("Version")>>, Val(a.Version), Val(b.Version), diffString)
        \o Concat([k \in 1..n |->
                diffPtr(<<S("Statement"), idstring(k - 1)>>,
                        IF k <= Len(a.Statement) THEN Val(Ptr(a.Statement[k])) ELSE Invalid,
                        IF k <= Len(b.Statement) THEN Val(Ptr(b.Statement[k])) ELSE Invalid,
                        diffStatement)])

\* diff.Diff(a, b) of two rolePolicyDocument values.
\* A comparison that stops at the first statement that differs.
DiffFirstStatementOnly(a, b, keyOrder) ==
    LET diffStatement(p, x, y) == diffStructStatement(p, x, y, keyOrder)
        version == diffPtr(<<S("Version")>>, Val(a.Version), Val(b.Version), diffString)
        statements == diffSliceGeneric(<<S("Statement")>>, a.Statement, b.Statement, diffStatement)
    IN  version \o SelectSeq(statements, LAMBDA change : change.Path[2] = statements[1].Path[2])

Diff(a, b, keyOrder) ==
    LET diffStatement(p, x, y) == diffStructStatement(p, x, y, keyOrder)
    IN  diffPtr(<<S("Version")>>, Val(a.Version), Val(b.Version), diffString)
        \o diffSliceGeneric(<<S("Statement")>>, a.Statement, b.Statement, diffStatement)

(***************************************************************************)
(* validatePolicyDocument.                                                 *)
(***************************************************************************)
statementPath == S("Statement")

statementPathIndex == 0

actionPath == S("Action")

notActionPath == S("NotAction")

conditionPath == S("Condition")

actionNotActionPathLength == 4

conditionPathLength == 5

actionNotActionConditionPathIndex == 2

\* The loop that fills the placeholders of one expected statement. The
\* statement is reached through the pointer that the expected document holds.
fillStatement(stmt, c) ==
    [stmt EXCEPT
        !.Principal =
            IF stmt.Principal # Nil /\ stmt.Principal[1].Federated # Nil
            THEN Ptr([stmt.Principal[1] EXCEPT
                        !.Federated = Ptr(fillPlaceholdersString(Deref(stmt.Principal[1].Federated), c))])
            ELSE stmt.Principal,
        !.Resource =
            IF stmt.Resource # Nil
            THEN Ptr(fillPlaceholdersString(Deref(stmt.Resource), c))
            ELSE stmt.Resource,
        !.Condition =
            IF stmt.Condition # Nil
            THEN Ptr([StringEquals |->
                        IF stmt.Condition[1].StringEquals # Nil
                        THEN Ptr(fillPlaceholdersMap(stmt.Condition[1].StringEquals[1], c))
                        ELSE Nil,
                      StringLike |->
                        IF stmt.Condition[1].StringLike # Nil
                        THEN Ptr(fillPlaceholdersMap(stmt.Condition[1].StringLike[1], c))
                        ELSE Nil])
            ELSE stmt.Condition]

\* The expected document after the loop over its statements.
fillDocument(expectedDocument, c) ==
    [expectedDocument EXCEPT
        !.Statement = [i \in DOMAIN expectedDocument.Statement |->
                          fillStatement(expectedDocument.Statement[i], c)]]

\* The entries that the filter drops (the Go index i is the TLA+ index i + 1).
\* Variants of the filter's condition.
DroppedNoCondition(change) ==
    /\ change.Type = CREATE
    /\ change.Path[statementPathIndex + 1] = statementPath
    /\ Len(change.Path) = actionNotActionPathLength
    /\ \/ change.Path[actionNotActionConditionPathIndex + 1] = actionPath
       \/ change.Path[actionNotActionConditionPathIndex + 1] = notActionPath

DroppedAnyType(change) ==
    /\ change.Path[statementPathIndex + 1] = statementPath
    /\ \/ /\ Len(change.Path) = actionNotActionPathLength
          /\ \/ change.Path[actionNotActionConditionPathIndex + 1] = actionPath
             \/ change.Path[actionNotActionConditionPathIndex + 1] = notActionPath
       \/ /\ Len(change.Path) = conditionPathLength
          /\ change.Path[actionNotActionConditionPathIndex + 1] = conditionPath

DroppedAnyCreate(change) == change.Type = CREATE

\* A filter that looks at the name of the field only, not at the type of the
\* change and not at the length of the path.
DroppedByFieldName(change) ==
    /\ change.Path[statementPathIndex + 1] = statementPath
    /\ Len(change.Path) > actionNotActionConditionPathIndex
    /\ change.Path[actionNotActionConditionPathIndex + 1] \in {actionPath, notActionPath, conditionPath}

Dropped(change) ==
    /\ change.Type = CREATE
    /\ change.Path[statementPathIndex + 1] = statementPath
    /\ \/ /\ Len(change.Path) = actionNotActionPathLength
          /\ \/ change.Path[actionNotActionConditionPathIndex + 1] = actionPath
             \/ change.Path[actionNotActionConditionPathIndex + 1] = notActionPath
       \/ /\ Len(change.Path) = conditionPathLength
          /\ change.Path[actionNotActionConditionPathIndex + 1] = conditionPath

\* A filter that appends nothing to changelog[:0].
filteredChangelogEmpty(changelog) == SubSeq(changelog, 1, 0)

\* A filter that returns the kept entries last to first.
filteredChangelogReversed(changelog) ==
    LET kept == SelectSeq(changelog, LAMBDA change : ~Dropped(change))
    IN  [n \in 1..Len(kept) |-> kept[Len(kept) + 1 - n]]

filteredChangelog(changelog) == SelectSeq(changelog, LAMBDA change : ~Dropped(change))

\* A validation that skips the loop that fills the placeholders.
validatePolicyDocumentNoFill(document, expectedDocument, c, keyOrder) ==
    filteredChangelog(Diff(expectedDocument, document, keyOrder))

\* The changelog that validatePolicyDocument returns.
validatePolicyDocument(document, expectedDocument, c, keyOrder) ==
    filteredChangelog(Diff(fillDocument(expectedDocument, c), document, keyOrder))

\* The keys of every Condition map of a document.
ConditionKeys(doc) ==
    UNION {
        LET cond == doc.Statement[i].Condition
        IN  IF cond = Nil THEN {}
            ELSE (IF cond[1].StringEquals = Nil THEN {} ELSE DOMAIN cond[1].StringEquals[1])
                 \cup
                 (IF cond[1].StringLike = Nil THEN {} ELSE DOMAIN cond[1].StringLike[1])
        : i \in DOMAIN doc.Statement}

(***************************************************************************)
(* The state.                                                              *)
(***************************************************************************)
VARIABLES
    constExpectedAssumeRolePolicyDocument, \* the package-level trust baseline
    constExpectedPolicyDocuments,          \* the package-level policy baselines
    envConfig,        \* the context of the checker in use
    phase,            \* "idle", "fetched", "validated" or "handle"
    target,           \* the baseline that the actual document is checked against
    document,         \* the actual document
    extraDone,        \* the actual document was given an extra entry
    deficitDone,      \* the actual document was given a deficit
    orderDone,        \* the actual document was reordered or restructured
    expectedBefore,   \* the expected document as the last validation received it
    changelog,        \* the changelog that the last validation returned
    calls,            \* the number of validations so far
    pc,               \* AWSChecker.Handle: the place it has reached
    jwts,             \* AWSChecker.Handle: the JWTs still to use
    err,              \* AWSChecker.Handle: its variable err
    roleErr,          \* the errors that AWSCrossplaneRoleChecker.Handle returned
    result,           \* AWSChecker.Handle: what it returned and logged
    cpc,              \* the codec: "idle", "decoded" or "encoded"
    codecIn,          \* the JSON object that UnmarshalJSON was given
    codecStmt,        \* what UnmarshalJSON returned: its error and the statement
    codecOut,         \* the JSON object that MarshalJSON wrote
    apc,              \* AzureCrossplaneRoleChecker.Handle: the place it has reached
    azureRole,        \* the permission blocks of the Azure role definition
    azureResult,      \* AzureCrossplaneRoleChecker.Handle: what it returned
    gpc,              \* GCPCrossplaneRoleChecker.Handle: the place it has reached
    pod,              \* the pod gcp-crossplane-role-checker in the cluster
    podPhase,         \* the phase that the wait returned
    logs,             \* the lines that PodLogs returned
    gcpTrace,         \* what Handle did since it created the pod
    gcpResult,        \* GCPCrossplaneRoleChecker.Handle: what it returned
    gcpCheckerResult, \* GCPChecker.Handle: what it returned
    roleRun,          \* AWSCrossplaneRoleChecker.Handle, call by call
    edits,            \* the changes made to the actual documents so far
    job               \* the run of bashScript in the pod, command by command

baselineVars == <<constExpectedAssumeRolePolicyDocument, constExpectedPolicyDocuments>>

inputVars == <<target, document, extraDone, deficitDone, orderDone>>

callVars == <<expectedBefore, changelog, calls>>

handleVars == <<pc, jwts, err, roleErr, result>>

codecVars == <<cpc, codecIn, codecStmt, codecOut>>

azureVars == <<apc, azureRole, azureResult>>

gcpVars == <<gpc, pod, podPhase, logs, gcpTrace, gcpResult, gcpCheckerResult>>

\* The state of the checkers of the other clouds and of the statement codec.
otherVars == <<codecVars, azureVars, gcpVars, roleRun, edits, job>>

vars == <<baselineVars, envConfig, phase, inputVars, callVars, handleVars, otherVars>>

\* The number of validatePolicyDocument calls that a behaviour makes one by one.
MaxCalls == 2

\* The number of JWTs that the JWT retriever returns at most.
MaxJWTs == 2

\* The contexts: the one of the package's test and a second cluster.
TestContext ==
    [ClusterName |-> S("test"), AccountID |-> S("1234567890"),
     OIDCURL |-> S("oidc.eks.us-west-2.amazonaws.com/id/1234567890")]

OtherContext ==
    [ClusterName |-> S("prod"), AccountID |-> S("0987654321"),
     OIDCURL |-> S("oidc.eks.us-east-1.amazonaws.com/id/0987654321")]

Contexts == {TestContext, OtherContext}

Targets == {"trust"} \cup PolicySuffixes

\* The original value of a baseline.
Template(name) ==
    IF name = "trust" THEN TemplateAssumeRolePolicyDocument ELSE TemplatePolicyDocuments[name]

\* The present value of a baseline.
Expected(name) ==
    IF name = "trust" THEN constExpectedAssumeRolePolicyDocument
    ELSE constExpectedPolicyDocuments[name]

NoError == Nil

\* An error: its messages, outermost first, and the changelog it carries.
Error(msg, cl) == Ptr([msg |-> <<msg>>, changelog |-> cl])

\* multierr.Combine(sentinel, cause), cause not nil.
Combine(msg, cause) == Ptr([msg |-> <<msg>> \o cause[1].msg, changelog |-> cause[1].changelog])

NoResult == [returned |-> FALSE, err |-> NoError, logged |-> FALSE]

Init ==
    /\ constExpectedAssumeRolePolicyDocument = TemplateAssumeRolePolicyDocument
    /\ constExpectedPolicyDocuments = TemplatePolicyDocuments
    /\ envConfig \in Contexts
    /\ phase = "idle"
    /\ target = "trust"
    /\ document = EmptyDocument
    /\ extraDone = FALSE
    /\ deficitDone = FALSE
    /\ orderDone = FALSE
    /\ expectedBefore = EmptyDocument
    /\ changelog = <<>>
    /\ calls = 0
    /\ pc = "start"
    /\ jwts = 0
    /\ err = NoError
    /\ roleErr = <<>>
    /\ result = NoResult
    /\ cpc = "idle"
    /\ codecIn = <<>>
    /\ codecStmt = <<>>
    /\ codecOut = <<>>
    /\ apc = "start"
    /\ azureRole = <<>>
    /\ azureResult = NoResult
    /\ gpc = "start"
    /\ pod = "absent"
    /\ podPhase = "Unknown"
    /\ logs = <<>>
    /\ gcpTrace = [found |-> "none", deletedOld |-> FALSE, created |-> FALSE, polls |-> 0,
                   deleted |-> FALSE, split |-> FALSE, compared |-> FALSE]
    /\ gcpResult = NoResult
    /\ gcpCheckerResult = NoResult
    /\ edits = 0
    /\ job = [pc |-> "start", ROLES |-> <<>>, next |-> 1, ROLE_COUNT |-> 0, SELECTED_ROLE_ID |-> <<>>,
               stdout |-> <<>>, stderr |-> <<>>, exit |-> -1]
    /\ roleRun = [pc |-> "start", calls |-> <<>>, todo |-> <<>>,
                  pending |-> [fails |-> "none", doc |-> EmptyDocument], verdicts |-> <<>>, err |-> NoError]

(***************************************************************************)
(* The inputs of validatePolicyDocument: a checker and an actual document. *)
(* The actual document is what IAM returns for the role: the baseline with *)
(* the placeholders of this context filled in, then changed by at most one *)
(* addition, one deficit and one reordering.                               *)
(***************************************************************************)
\* The state between two validations: the actual document and the changelog
\* of the last validation are gone.
Discard ==
    /\ target' = "trust"
    /\ document' = EmptyDocument
    /\ extraDone' = FALSE
    /\ deficitDone' = FALSE
    /\ orderDone' = FALSE
    /\ expectedBefore' = EmptyDocument
    /\ changelog' = <<>>

\* New: a checker with another context.
New(c) ==
    /\ phase \in {"idle", "validated"}
    /\ c # envConfig
    /\ envConfig' = c
    /\ phase' = "idle"
    /\ Discard
    /\ UNCHANGED <<baselineVars, calls, handleVars, otherVars>>

Fetch(name) ==
    /\ phase \in {"idle", "validated"}
    /\ calls < MaxCalls
    /\ phase' = "fetched"
    /\ target' = name
    /\ document' = fillDocument(Template(name), envConfig)
    /\ extraDone' = FALSE
    /\ deficitDone' = FALSE
    /\ orderDone' = FALSE
    /\ expectedBefore' = EmptyDocument
    /\ changelog' = <<>>
    /\ UNCHANGED <<baselineVars, envConfig, calls, handleVars, otherVars>>

FetchEmpty(name) ==
    /\ phase \in {"idle", "validated"}
    /\ calls < MaxCalls
    /\ phase' = "fetched"
    /\ target' = name
    /\ document' = EmptyDocument
    /\ extraDone' = TRUE
    /\ deficitDone' = TRUE
    /\ orderDone' = TRUE
    /\ expectedBefore' = EmptyDocument
    /\ changelog' = <<>>
    /\ UNCHANGED <<baselineVars, envConfig, calls, handleVars, otherVars>>

extraAction == S("ec2:DescribeTags")

extraConditionKey == S("rds:DatabaseClass")

extraConditionValue == S("db.t3.small")

extraStatement ==
    rolePolicyStatement(Nil, Ptr(S("Allow")), Ptr(<<extraAction>>), Nil, Nil,
                        Ptr(S("*")), Ptr(S("AllowExtra")))

otherAccountID == S("1111111111")

\* The name of the action list that a statement has.
ListField(stmt) == IF stmt.Action # Nil THEN "Action" ELSE "NotAction"

RemoveAt(seq, k) == SubSeq(seq, 1, k - 1) \o SubSeq(seq, k + 1, Len(seq))

Reverse(seq) == [i \in 1..Len(seq) |-> seq[Len(seq) + 1 - i]]

\* The actual document is built from the fetched one by at most one extra,
\* then at most one deficit, then at most one reordering.
Edit(doc) ==
    /\ phase = "fetched"
    /\ document' = doc
    /\ UNCHANGED <<baselineVars, envConfig, phase, target, callVars, handleVars, otherVars>>

Extra(doc) ==
    /\ ~extraDone /\ ~deficitDone /\ ~orderDone
    /\ extraDone' = TRUE
    /\ UNCHANGED <<deficitDone, orderDone>>
    /\ Edit(doc)

Deficit(doc) ==
    /\ ~deficitDone /\ ~orderDone
    /\ deficitDone' = TRUE
    /\ UNCHANGED <<extraDone, orderDone>>
    /\ Edit(doc)

Reorder(doc) ==
    /\ ~orderDone
    /\ orderDone' = TRUE
    /\ UNCHANGED <<extraDone, deficitDone>>
    /\ Edit(doc)

AddAction(i, front) ==
    /\ i \in DOMAIN document.Statement
    /\ LET f == ListField(document.Statement[i])
           list == document.Statement[i][f]
       IN  /\ list # Nil
           /\ Extra([document EXCEPT !.Statement[i][f] =
                        Ptr(IF front THEN <<extraAction>> \o list[1]
                                     ELSE list[1] \o <<extraAction>>)])

AddCondition(i, sub) ==
    /\ i \in DOMAIN document.Statement
    /\ document.Statement[i].Condition # Nil
    /\ document.Statement[i].Condition[1][sub] # Nil
    /\ LET m == document.Statement[i].Condition[1][sub][1]
       IN  Extra([document EXCEPT !.Statement[i].Condition =
                    Ptr([@[1] EXCEPT ![sub] =
                        Ptr([k \in DOMAIN m \cup {extraConditionKey} |->
                                IF k \in DOMAIN m THEN m[k] ELSE extraConditionValue])])])

\* An extra entry in every action list and in every condition map.
withExtras(stmt) ==
    LET more(list) == IF list = Nil THEN Nil ELSE Ptr(list[1] \o <<extraAction>>)
        wider(m) ==
            IF m = Nil THEN Nil
            ELSE Ptr([k \in DOMAIN m[1] \cup {extraConditionKey} |->
                        IF k \in DOMAIN m[1] THEN m[1][k] ELSE extraConditionValue])
    IN  [stmt EXCEPT
            !.Action = more(@),
            !.NotAction = more(@),
            !.Condition = IF @ = Nil THEN Nil
                          ELSE Ptr(rolePolicyCondition(wider(@[1].StringEquals),
                                                       wider(@[1].StringLike)))]

AddEverywhere ==
    Extra([document EXCEPT !.Statement = [i \in DOMAIN @ |-> withExtras(@[i])]])

RemoveAction(i, k) ==
    /\ i \in DOMAIN document.Statement
    /\ LET f == ListField(document.Statement[i])
           list == document.Statement[i][f]
       IN  /\ list # Nil
           /\ k \in DOMAIN list[1]
           /\ list[1][k] # extraAction
           /\ Deficit([document EXCEPT !.Statement[i][f] = Ptr(RemoveAt(list[1], k))])

AlterCondition(i, sub, remove) ==
    /\ i \in DOMAIN document.Statement
    /\ document.Statement[i].Condition # Nil
    /\ document.Statement[i].Condition[1][sub] # Nil
    /\ LET m == document.Statement[i].Condition[1][sub][1]
       IN  \E key \in DOMAIN m \ {extraConditionKey} :
             Deficit([document EXCEPT !.Statement[i].Condition =
                        Ptr([@[1] EXCEPT ![sub] =
                            Ptr(IF remove
                                THEN [k \in DOMAIN m \ {key} |-> m[k]]
                                ELSE [m EXCEPT ![key] = S("false")])])])

AlterEffect(i, remove) ==
    /\ i \in DOMAIN document.Statement
    /\ document.Statement[i].Effect # Nil
    /\ Deficit([document EXCEPT !.Statement[i].Effect =
                    IF remove THEN Nil
                    ELSE IF @ = Ptr(S("Allow")) THEN Ptr(S("Deny")) ELSE Ptr(S("Allow"))])

AlterResource(i, remove) ==
    /\ i \in DOMAIN document.Statement
    /\ document.Statement[i].Resource # Nil
    /\ Deficit([document EXCEPT !.Statement[i].Resource =
                    IF remove THEN Nil ELSE Ptr(S("arn:aws:s3:::other"))])

\* The account id inside the Principal.Federated ARN becomes another one.
AlterFederated(i, remove) ==
    /\ i \in DOMAIN document.Statement
    /\ i \in DOMAIN Template(target).Statement
    /\ document.Statement[i].Principal # Nil
    /\ Template(target).Statement[i].Principal # Nil
    /\ Deficit([document EXCEPT !.Statement[i].Principal =
                    IF remove THEN Nil
                    ELSE Ptr(rolePolicyPrincipal(Ptr(fillPlaceholdersString(
                            Template(target).Statement[i].Principal[1].Federated[1],
                            [envConfig EXCEPT !.AccountID = otherAccountID]))))])

RenameSID(i) ==
    /\ i \in DOMAIN document.Statement
    /\ Deficit([document EXCEPT !.Statement[i].SID = Ptr(S("Renamed"))])

DropStatement(i) ==
    /\ i \in DOMAIN document.Statement
    /\ Deficit([document EXCEPT !.Statement = RemoveAt(@, i)])

ReverseActions(i) ==
    /\ i \in DOMAIN document.Statement
    /\ LET f == ListField(document.Statement[i])
           list == document.Statement[i][f]
       IN  /\ list # Nil
           /\ Len(list[1]) > 1
           /\ Reorder([document EXCEPT !.Statement[i][f] = Ptr(Reverse(list[1]))])

SwapStatements ==
    /\ Len(document.Statement) > 1
    /\ Reorder([document EXCEPT !.Statement = Reverse(@)])

AddStatement(front) ==
    /\ Reorder([document EXCEPT !.Statement =
                    IF front THEN <<extraStatement>> \o @ ELSE @ \o <<extraStatement>>])

(***************************************************************************)
(* A call of validatePolicyDocument with the present baseline. The loop    *)
(* over the expected statements writes through the statement pointers, so  *)
(* the baseline holds the filled values afterwards.                        *)
(***************************************************************************)
Validate ==
    /\ phase = "fetched"
    /\ LET expected == Expected(target)
           filled == fillDocument(expected, envConfig)
       IN  /\ \E order \in KeyOrders(ConditionKeys(document) \cup ConditionKeys(filled)) :
                changelog' = validatePolicyDocument(document, expected, envConfig, order)
           /\ expectedBefore' = expected
           /\ IF target = "trust"
              THEN /\ constExpectedAssumeRolePolicyDocument' = filled
                   /\ UNCHANGED constExpectedPolicyDocuments
              ELSE /\ constExpectedPolicyDocuments' =
                        [constExpectedPolicyDocuments EXCEPT ![target] = filled]
                   /\ UNCHANGED constExpectedAssumeRolePolicyDocument
    /\ phase' = "validated"
    /\ calls' = calls + 1
    /\ UNCHANGED <<envConfig, inputVars, handleVars, otherVars>>

(***************************************************************************)
(* AWSCrossplaneRoleChecker.Handle and processPolicyDocument.              *)
(***************************************************************************)
errNoAssumeRolePolicyDocument == "no assume role policy document"

errAssumeRolePolicyDocumentMismatch == "assume role policy document mismatch"

errNoDefaultPolicyVersion == "no default policy version"

errPolicyVersionOrDocumentNil == "policy version or document is nil"

errPolicyDocumentMismatch == "policy document does not match"

\* What IAM answers for one document: the call that fails, if any, and the
\* document.
Answer(fails, doc) == [fails |-> fails, doc |-> doc]

\* A call that returns the bare mismatch error.
validatedNoChangelog(mismatch, cl, expected) ==
    [err |-> IF Len(cl) > 0 THEN Error(mismatch, SubSeq(cl, 1, 0)) ELSE NoError,
     expected |-> expected]

\* What a call returns after its validation: the error and the expected
\* document as the call leaves it.
validated(mismatch, cl, expected) ==
    [err |-> IF Len(cl) > 0 THEN Error(mismatch, cl) ELSE NoError, expected |-> expected]

\* A call that returns before its validation.
failed(e, expected) == [err |-> e, expected |-> expected]

processPolicyDocument(answer, expectedPolicyDocument, c, order) ==
    CASE answer.fails = "ListPolicyVersions" ->
            failed(Error("ListPolicyVersions", <<>>), expectedPolicyDocument)
      [] answer.fails = "NoDefaultVersion" ->
            failed(Error(errNoDefaultPolicyVersion, <<>>), expectedPolicyDocument)
      [] answer.fails = "GetPolicyVersion" ->
            failed(Error("GetPolicyVersion", <<>>), expectedPolicyDocument)
      [] answer.fails = "NilDocument" ->
            failed(Error(errPolicyVersionOrDocumentNil, <<>>), expectedPolicyDocument)
      [] answer.fails = "Decode" ->
            failed(Error("json.Unmarshal", <<>>), expectedPolicyDocument)
      [] OTHER ->
            validated(errPolicyDocumentMismatch,
                      validatePolicyDocument(answer.doc, expectedPolicyDocument, c, order),
                      fillDocument(expectedPolicyDocument, c))

\* The loop over constExpectedPolicyDocuments, in the order suffixes; done[s]
\* is what processPolicyDocument returns for the suffix s. The loop returns at
\* the first error and leaves the later baselines as they are.
RECURSIVE processPolicyDocuments(_, _, _)
processPolicyDocuments(suffixes, done, policies) ==
    IF suffixes = <<>> THEN [err |-> NoError, policies |-> policies]
    ELSE LET suffix == Head(suffixes)
             after == [policies EXCEPT ![suffix] = done[suffix].expected]
         IN  IF done[suffix].err # NoError THEN [err |-> done[suffix].err, policies |-> after]
             ELSE processPolicyDocuments(Tail(suffixes), done, after)

\* The part of AWSCrossplaneRoleChecker.Handle up to the trust policy's
\* validation.
getRole(role, trust, c, order) ==
    CASE role.fails = "GetRole" -> failed(Error("GetRole", <<>>), trust)
      [] role.fails = "NilDocument" -> failed(Error(errNoAssumeRolePolicyDocument, <<>>), trust)
      [] role.fails = "Decode" -> failed(Error("json.Unmarshal", <<>>), trust)
      [] OTHER ->
            validated(errAssumeRolePolicyDocumentMismatch,
                      validatePolicyDocument(role.doc, trust, c, order),
                      fillDocument(trust, c))

\* What AWSCrossplaneRoleChecker.Handle returns, and both baselines as it
\* leaves them: the policies are processed only if the trust policy passed.
roleCheckerReturn(first, rest, policies) ==
    IF first.err # NoError
    THEN [err |-> first.err, trust |-> first.expected, policies |-> policies]
    ELSE [err |-> rest.err, trust |-> first.expected, policies |-> rest.policies]

roleCheckerHandle(role, answers, suffixes, trust, policies, c, order) ==
    roleCheckerReturn(
        getRole(role, trust, c, order),
        processPolicyDocuments(
            suffixes,
            [s \in PolicySuffixes |-> processPolicyDocument(answers[s], policies[s], c, order)],
            policies),
        policies)

\* What IAM may answer: a call that fails, the document that meets the
\* baseline, or an empty document.
RoleAnswers(c) ==
    {Answer(f, EmptyDocument) : f \in {"GetRole", "NilDocument", "Decode"}}
    \cup {Answer("none", d) : d \in {fillDocument(Template("trust"), c), EmptyDocument}}

BadPolicyAnswers ==
    {Answer(f, EmptyDocument) :
        f \in {"ListPolicyVersions", "NoDefaultVersion", "GetPolicyVersion",
               "NilDocument", "Decode", "none"}}

PolicyAnswers(c) ==
    {[s \in PolicySuffixes |->
        IF s = failing THEN bad ELSE Answer("none", fillDocument(Template(s), c))] :
        failing \in PolicySuffixes \cup {"none"}, bad \in BadPolicyAnswers}

(***************************************************************************)
(* AWSChecker.Handle, step by step.                                        *)
(***************************************************************************)
ErrFailedToRetrieveJWTs == "failed to retrieve JWTs"

ErrFailedToCheckJWTs == "failed to check JWTs"

ErrFailedToCheckCrossplaneRole == "failed to check Crossplane role"

Return(e, logged) ==
    /\ result' = [returned |-> TRUE, err |-> e, logged |-> logged]
    /\ pc' = "done"

HandleRetrieveJWTs ==
    /\ phase = "idle"
    /\ calls = 0
    /\ pc = "start"
    /\ phase' = "handle"
    /\ \/ /\ Return(Combine(ErrFailedToRetrieveJWTs, Error("ServiceAccounts.List", <<>>)), FALSE)
          /\ UNCHANGED jwts
       \/ /\ \E n \in 0..MaxJWTs : jwts' = n
          /\ pc' = "checkJWTs"
          /\ UNCHANGED result
    /\ UNCHANGED <<baselineVars, envConfig, inputVars, callVars, err, roleErr, otherVars>>

HandleCheckJWTs ==
    /\ pc = "checkJWTs"
    /\ \/ Return(Combine(ErrFailedToCheckJWTs, Error("jwtChecker", <<>>)), FALSE)
       \/ /\ pc' = "loop"
          /\ UNCHANGED result
    /\ UNCHANGED <<baselineVars, envConfig, phase, inputVars, callVars, jwts, err, roleErr, otherVars>>

\* The loop's head and the call of AssumeRoleWithWebIdentity, which assigns
\* to the function's err.
HandleAssumeRole ==
    /\ pc = "loop"
    /\ jwts > 0
    /\ jwts' = jwts - 1
    /\ \/ /\ err' = Error("AssumeRoleWithWebIdentity", <<>>)
          /\ pc' = "after"
       \/ /\ err' = NoError
          /\ pc' = "role"
    /\ UNCHANGED <<baselineVars, envConfig, phase, inputVars, callVars, roleErr, result, otherVars>>

\* The state after crossplaneRoleChecker.Handle returned r.
RoleChecked(r) ==
    /\ constExpectedAssumeRolePolicyDocument' = r.trust
    /\ constExpectedPolicyDocuments' = r.policies
    /\ roleErr' = r.err
    /\ pc' = IF r.err # NoError THEN "after" ELSE "loop"

\* crossplaneRoleChecker.Handle(ctx): its error is held by a variable err
\* that the if statement declares; the function's err is not assigned.
HandleRoleCheck ==
    /\ pc = "role"
    /\ \E role \in RoleAnswers(envConfig), answers \in PolicyAnswers(envConfig),
          suffixes \in KeyOrders(PolicySuffixes),
          order \in KeyOrders(ConditionKeys(fillDocument(Template("trust"), envConfig))
                              \cup ConditionKeys(fillDocument(Template("policy"), envConfig))) :
            RoleChecked(roleCheckerHandle(role, answers, suffixes,
                                          constExpectedAssumeRolePolicyDocument,
                                          constExpectedPolicyDocuments, envConfig, order))
    /\ UNCHANGED <<envConfig, phase, inputVars, callVars, jwts, err, result, otherVars>>

HandleLoopEnd ==
    /\ pc = "loop"
    /\ jwts = 0
    /\ pc' = "after"
    /\ UNCHANGED <<baselineVars, envConfig, phase, inputVars, callVars, jwts, err, roleErr, result, otherVars>>

HandleReturn ==
    /\ pc = "after"
    /\ IF err # NoError
       THEN Return(Combine(ErrFailedToCheckCrossplaneRole, err), FALSE)
       ELSE Return(NoError, TRUE)
    /\ UNCHANGED <<baselineVars, envConfig, phase, inputVars, callVars, jwts, err, roleErr, otherVars>>

Next ==
    \/ \E c \in Contexts : New(c)
    \/ \E name \in Targets : Fetch(name)
    \/ \E name \in Targets : FetchEmpty(name)
    \/ \E i \in 1..2, front \in BOOLEAN : AddAction(i, front)
    \/ \E i \in 1..2, sub \in {"StringEquals", "StringLike"} : AddCondition(i, sub)
    \/ AddEverywhere
    \/ \E i \in 1..2, k \in 1..3 : RemoveAction(i, k)
    \/ \E i \in 1..2, sub \in {"StringEquals", "StringLike"}, remove \in BOOLEAN :
            AlterCondition(i, sub, remove)
    \/ \E i \in 1..2, remove \in BOOLEAN : AlterEffect(i, remove)
    \/ \E i \in 1..2, remove \in BOOLEAN : AlterResource(i, remove)
    \/ \E i \in 1..2, remove \in BOOLEAN : AlterFederated(i, remove)
    \/ \E i \in 1..2 : RenameSID(i)
    \/ \E i \in 1..2 : DropStatement(i)
    \/ \E i \in 1..2 : ReverseActions(i)
    \/ SwapStatements
    \/ \E front \in BOOLEAN : AddStatement(front)
    \/ Validate
    \/ HandleRetrieveJWTs
    \/ HandleCheckJWTs
    \/ HandleAssumeRole
    \/ HandleRoleCheck
    \/ HandleLoopEnd
    \/ HandleReturn

Spec == Init /\ [][Next]_vars

(***************************************************************************)
(* Properties of validatePolicyDocument.                                   *)
(***************************************************************************)
\* The orders in which the keys of the condition maps can be iterated when
\* doc is validated against expected.
MapOrders(doc, expected) ==
    KeyOrders(ConditionKeys(doc) \cup ConditionKeys(fillDocument(expected, envConfig)))

\* A validation has returned and its inputs are still in the state.
Validated == phase = "validated"

\* The expected document of the last validation as the call resolved it.
Resolved == fillDocument(expectedBefore, envConfig)

Range(seq) == {seq[i] : i \in DOMAIN seq}

Count(x, seq) == Cardinality({i \in DOMAIN seq : seq[i] = x})

\* Every string of e occurs in a at least as often.
ListExtends(a, e) ==
    IF e = Nil THEN a = Nil
    ELSE a # Nil /\ \A x \in Range(e[1]) : Count(x, e[1]) <= Count(x, a[1])

\* Every entry of e is an entry of a.
MapExtends(a, e) ==
    IF e = Nil THEN a = Nil
    ELSE a # Nil /\ DOMAIN e[1] \subseteq DOMAIN a[1]
                 /\ \A k \in DOMAIN e[1] : a[1][k] = e[1][k]

ConditionExtends(a, e) ==
    IF e = Nil THEN a = Nil
    ELSE a # Nil /\ MapExtends(a[1].StringEquals, e[1].StringEquals)
                 /\ MapExtends(a[1].StringLike, e[1].StringLike)

StatementExtends(a, e) ==
    /\ a.Effect = e.Effect
    /\ a.Resource = e.Resource
    /\ a.SID = e.SID
    /\ a.Principal = e.Principal
    /\ ListExtends(a.Action, e.Action)
    /\ ListExtends(a.NotAction, e.NotAction)
    /\ ConditionExtends(a.Condition, e.Condition)

\* A is R with strings added to its lists and entries added to its maps.
IsExtension(A, R) ==
    /\ A.Version = R.Version
    /\ Len(A.Statement) = Len(R.Statement)
    /\ \A i \in DOMAIN R.Statement : StatementExtends(A.Statement[i], R.Statement[i])

\* C1: an actual document that is the resolved expected document with extra
\* strings in its action lists and extra entries in its condition maps passes:
\* the changelog that validatePolicyDocument returns is empty, whatever the
\* Effect of the statements (Allow or Deny).
C1_SupersetPasses ==
    (Validated /\ IsExtension(document, Resolved)) => changelog = <<>>

\* C1's case: the policy template, whose first statement is a Deny, validated
\* against an actual document with an extra in every list and every map.
C1_Witness ==
    /\ Validated
    /\ target = "policy"
    /\ expectedBefore = Template("policy")
    /\ IsExtension(document, Resolved)
    /\ document.Statement[1].Effect = Ptr(S("Deny"))
    /\ \A i \in DOMAIN document.Statement :
          Len(document.Statement[i].Action[1]) > Len(Resolved.Statement[i].Action[1])
    /\ extraConditionKey \in DOMAIN document.Statement[2].Condition[1].StringEquals[1]
    /\ changelog = <<>>

\* Something the expected list e requires is absent from a.
ListDeficit(a, e) ==
    e # Nil /\ (a = Nil \/ \E x \in Range(e[1]) : x \notin Range(a[1]))

MapDeficit(a, e) ==
    e # Nil /\ (a = Nil \/ \E k \in DOMAIN e[1] : k \notin DOMAIN a[1] \/ a[1][k] # e[1][k])

ConditionDeficit(a, e) ==
    e # Nil /\ (a = Nil \/ MapDeficit(a[1].StringEquals, e[1].StringEquals)
                       \/ MapDeficit(a[1].StringLike, e[1].StringLike))

StatementDeficit(a, e) ==
    \/ ListDeficit(a.Action, e.Action)
    \/ ListDeficit(a.NotAction, e.NotAction)
    \/ ConditionDeficit(a.Condition, e.Condition)
    \/ e.Effect # Nil /\ a.Effect # e.Effect
    \/ e.Resource # Nil /\ a.Resource # e.Resource
    \/ e.Principal # Nil /\ a.Principal # e.Principal

\* The statements of A stand at the positions of R's statements (same SIDs)
\* and one of them lacks something its expected statement requires.
HasDeficit(A, R) ==
    /\ Len(A.Statement) = Len(R.Statement)
    /\ \A i \in DOMAIN R.Statement : A.Statement[i].SID = R.Statement[i].SID
    /\ \E i \in DOMAIN R.Statement : StatementDeficit(A.Statement[i], R.Statement[i])

\* C2: when the actual statements stand at the positions of the expected ones
\* and some statement lacks a required action, condition entry, or has another
\* Effect, Resource or Principal, validation fails (non-empty changelog), no
\* matter which extras the document carries or how its lists are ordered.
C2_DeficitFails ==
    (Validated /\ HasDeficit(document, Resolved)) => changelog # <<>>

\* C2's case: a deficit together with an extra and a reordered list.
C2_Witness ==
    /\ Validated
    /\ HasDeficit(document, Resolved)
    /\ extraDone /\ orderDone /\ deficitDone
    /\ expectedBefore = Template(target)
    /\ changelog # <<>>

(***************************************************************************)
(* Properties of AWSChecker.Handle.                                        *)
(***************************************************************************)
\* C3: when the role check of the Crossplane role returns an error,
\* AWSChecker.Handle returns an error and does not log that the role was
\* checked.
C3_RoleCheckErrorReturned ==
    (pc = "done" /\ roleErr # NoError) => (result.err # NoError /\ ~result.logged)

(***************************************************************************)
(* The package-level expected documents.                                   *)
(***************************************************************************)
\* C4: the expected assume role policy document and the expected policy
\* documents are constant: after any number of validatePolicyDocument calls
\* they still hold their placeholders.
C4_BaselinesConstant ==
    /\ constExpectedAssumeRolePolicyDocument = TemplateAssumeRolePolicyDocument
    /\ constExpectedPolicyDocuments = TemplatePolicyDocuments

\* C5: the changelog of a validation is the one that the actual document, the
\* template of the baseline and the context of the calling checker give; no
\* earlier validation by a checker with another context changes it.
C5_ResultFromTemplateAndContext ==
    Validated =>
        \E order \in MapOrders(document, Template(target)) :
            changelog = validatePolicyDocument(document, Template(target), envConfig, order)

(***************************************************************************)
(* How statements are paired.                                              *)
(***************************************************************************)
SIDs(doc) == {doc.Statement[i].SID : i \in DOMAIN doc.Statement}

\* The positions of the statements of A whose SID is set and is the SID of no
\* statement of R.
UnknownStatements(A, R) ==
    {j \in DOMAIN A.Statement :
        A.Statement[j].SID # Nil /\ A.Statement[j].SID \notin SIDs(R)}

WithoutUnknown(A, R) ==
    [A EXCEPT !.Statement =
        SelectSeq(@, LAMBDA s : ~(s.SID # Nil /\ s.SID \notin SIDs(R)))]

\* A satisfies every statement of R and holds further statements, each with a
\* SID that R does not know.
SatisfiedWithUnknown(A, R) ==
    /\ UnknownStatements(A, R) # {}
    /\ IsExtension(WithoutUnknown(A, R), R)

EntryAt(cl, types, path) ==
    \E n \in DOMAIN cl : cl[n].Type \in types /\ cl[n].Path = path

NoCounterpart(A, R) ==
    \/ Len(A.Statement) < Len(R.Statement)
    \/ \E i \in DOMAIN R.Statement :
          \A j \in DOMAIN A.Statement : A.Statement[j].SID # R.Statement[i].SID

\* C7: when an expected statement has no counterpart in the actual document,
\* validation fails; an empty actual document fails against every baseline.
C7_MissingStatementFails ==
    (Validated /\ NoCounterpart(document, Resolved)) => changelog # <<>>

\* C7's case: an actual document that lost one of the template's statements
\* and kept another.
C7_Witness ==
    /\ Validated
    /\ expectedBefore = Template(target)
    /\ Len(document.Statement) >= 1
    /\ Len(document.Statement) < Len(Resolved.Statement)
    /\ document.Version = Resolved.Version
    /\ changelog # <<>>

\* The documents that hold the statements of doc in another order.
Permuted(doc) ==
    {[doc EXCEPT !.Statement = [i \in DOMAIN @ |-> @[p[i]]]] :
        p \in KeyOrders(DOMAIN doc.Statement)}

\* Every permutation of the actual document's statements passes exactly if
\* the actual document passed.
PermutationInvariant ==
    \A d \in Permuted(document) :
        (validatePolicyDocument(d, expectedBefore, envConfig,
                                CHOOSE order \in MapOrders(d, expectedBefore) : TRUE) = <<>>)
            <=> (changelog = <<>>)

AllExact(A, R) == \A j \in DOMAIN A.Statement : A.Statement[j] \in Range(R.Statement)

federatedPath == <<statementPath, idstring(0), S("Principal"), S("Federated")>>

\* The ARN of the OIDC provider of the account acct.
FederatedARN(acct) ==
    <<"arn:aws:iam::">> \o acct \o <<":oidc-provider/">> \o envConfig.OIDCURL

\* The actual trust document of the scenario, with the ARN of the account acct.
TrustDocument(acct) ==
    rolePolicyDocument(Ptr(S("2012-10-17")), <<
        rolePolicyStatement(
            Ptr(rolePolicyCondition(Nil,
                Ptr((envConfig.OIDCURL \o <<":sub">>) :>
                        S("system:serviceaccount:crossplane:aws-*")))),
            Ptr(S("Allow")),
            Ptr(<<S("sts:AssumeRoleWithWebIdentity")>>),
            Nil,
            Ptr(rolePolicyPrincipal(Ptr(FederatedARN(acct)))),
            Nil,
            Nil)
    >>)

\* The trust baseline was validated, and it held its template or the template
\* as this context resolves it.
TrustValidated ==
    /\ Validated
    /\ target = "trust"
    /\ Resolved = fillDocument(TemplateAssumeRolePolicyDocument, envConfig)

\* C9: the actual trust document with the context's account id and OIDC id
\* passes; with only the account id inside Principal.Federated changed it
\* fails, and the changelog holds an update entry at
\* Statement/0/Principal/Federated.
C9_TrustScenario ==
    TrustValidated =>
        /\ document = TrustDocument(envConfig.AccountID) => changelog = <<>>
        /\ (document = TrustDocument(otherAccountID) /\ otherAccountID # envConfig.AccountID)
                => EntryAt(changelog, {UPDATE}, federatedPath)

\* C9's case: the trust template validated against the document with another
\* account id in its ARN.
C9_Witness ==
    /\ TrustValidated
    /\ expectedBefore = TemplateAssumeRolePolicyDocument
    /\ envConfig = TestContext
    /\ document = TrustDocument(otherAccountID)
    /\ changelog = <<Change(UPDATE, federatedPath,
                            Ptr(FederatedARN(envConfig.AccountID)),
                            Ptr(FederatedARN(otherAccountID)))>>

(***************************************************************************)
(* The failure detail.                                                     *)
(***************************************************************************)
\* The entry names one of the SIDs: in its path or as its old or new value.
NamesSID(change, sids) ==
    \E sid \in sids \ {Nil} :
        sid[1] \in Range(change.Path) \/ change.From = sid \/ change.To = sid

\* The entry's path is Statement/<position>/<field>... with a position below n.
NamesPosition(change, n) ==
    /\ Len(change.Path) >= 3
    /\ \E i \in 0..(n - 1) : change.Path[2] = idstring(i)
    /\ \E f \in DOMAIN StatementFields : change.Path[3] = S(StatementFields[f])

Longest(A, R) ==
    IF Len(A.Statement) > Len(R.Statement) THEN Len(A.Statement) ELSE Len(R.Statement)

mismatchErrors == {errAssumeRolePolicyDocumentMismatch, errPolicyDocumentMismatch}

\* C10 as the specification states it: when every statement has a SID, every
\* entry about a statement in the changelog of a failed validation names the
\* SID of a statement.
C10_EntriesNameSID ==
    (Validated /\ Nil \notin SIDs(document) \cup SIDs(Resolved)) =>
        \A n \in DOMAIN changelog :
            changelog[n].Path[1] = statementPath =>
                NamesSID(changelog[n], SIDs(document) \cup SIDs(Resolved))

\* C10 as the code behaves: a mismatch error carries a non-empty changelog,
\* and every entry about a statement identifies it by its position in the
\* Statement list, followed by the field path of the difference; a SID occurs
\* only in an entry about the SID field itself.
C10_EntriesNamePosition ==
    /\ Validated =>
          \A n \in DOMAIN changelog :
              changelog[n].Path[1] = statementPath =>
                  /\ NamesPosition(changelog[n], Longest(document, Resolved))
                  /\ NamesSID(changelog[n], SIDs(document) \cup SIDs(Resolved))
                        => changelog[n].Path[3] = S("SID")
    /\ (roleErr # NoError /\ roleErr[1].msg[1] \in mismatchErrors) =>
          /\ roleErr[1].changelog # <<>>
          /\ \A n \in DOMAIN roleErr[1].changelog :
                roleErr[1].changelog[n].Path[1] = statementPath =>
                    \E name \in Targets :
                        NamesPosition(roleErr[1].changelog[n], Len(Template(name).Statement))

\* C10's case: the role check returned the policy mismatch error, whose
\* changelog names the first statement's Effect by position.
C10_Witness ==
    /\ roleErr # NoError
    /\ roleErr[1].msg[1] = errPolicyDocumentMismatch
    /\ EntryAt(roleErr[1].changelog, {DELETE}, <<statementPath, idstring(0), S("Effect")>>)

(***************************************************************************)
(* The JSON codec of rolePolicyStatement. A JSON value is a record of its  *)
(* kind, its string (kind "string") and its elements (kind "array").       *)
(***************************************************************************)
JValue(kind, str, elems) == [kind |-> kind, str |-> str, elems |-> elems]

\* The member is not in the object.
JAbsent == JValue("absent", "", <<>>)

JNull == JValue("null", "", <<>>)

JNumber == JValue("number", "", <<>>)

JObject == JValue("object", "", <<>>)

JString(s) == JValue("string", s, <<>>)

JArray(elems) == JValue("array", "", elems)

\* The longest JSON array that the codec is given.
MaxArrayLen == 2

SeqsUpTo(set, n) == UNION {[1..k -> set] : k \in 0..n}

ActionNames == {"iam:Update*", "iam:Delete*"}

\* What an array may hold: strings, and values that are no strings.
JElements == {JString(s) : s \in ActionNames} \cup {JNumber, JObject}

\* The values of the members Action and NotAction.
JActionValues ==
    {JAbsent, JNull, JNumber, JObject}
    \cup {JString(s) : s \in ActionNames}
    \cup {JArray(elems) : elems \in SeqsUpTo(JElements, MaxArrayLen)}

\* The values of the member Effect, which the struct declares as *string.
JEffectValues == {JAbsent, JString("Allow"), JNumber}

\* The statements as JSON objects.
JStatements ==
    [Effect : JEffectValues, Action : JActionValues, NotAction : JActionValues]

\* The strings among the elements of an array, in their order.
stringElements(elems) ==
    LET strings == SelectSeq(elems, LAMBDA e : e.kind = "string")
    IN  [i \in DOMAIN strings |-> S(strings[i].str)]

\* A switch that has no case for a bare string.
unmarshalActionArrayOnly(v, prior) ==
    IF v.kind = "array" THEN Ptr(stringElements(v.elems)) ELSE prior

\* The switch on the type of aux.Action (and aux.NotAction): prior is the
\* field as it was, which no case changes for a value of another type.
unmarshalAction(v, prior) ==
    CASE v.kind = "string" -> Ptr(<<S(v.str)>>)
      [] v.kind = "array" -> Ptr(stringElements(v.elems))
      [] OTHER -> prior

\* json.Unmarshal of a *string member.
unmarshalString(v) ==
    CASE v.kind = "string" -> [err |-> NoError, value |-> Ptr(S(v.str))]
      [] v.kind \in {"absent", "null"} -> [err |-> NoError, value |-> Nil]
      [] OTHER -> [err |-> Error("json: cannot unmarshal into Go value of type string", <<>>),
                   value |-> Nil]

\* The statement that the decoder fills is a new one.
ZeroStatement == rolePolicyStatement(Nil, Nil, Nil, Nil, Nil, Nil, Nil)

\* rolePolicyStatement.UnmarshalJSON: the error it returns and the statement
\* as it leaves it.
UnmarshalJSON(data) ==
    LET effect == unmarshalString(data.Effect)
    IN  IF effect.err # NoError
        THEN [err |-> effect.err, stmt |-> ZeroStatement]
        ELSE [err |-> NoError,
              stmt |-> [ZeroStatement EXCEPT
                            !.Effect = effect.value,
                            !.Action = unmarshalAction(data.Action, Nil),
                            !.NotAction = unmarshalAction(data.NotAction, Nil)]]

\* An encoder that never writes the bare string.
marshalActionAlwaysArray(list) ==
    IF list = Nil THEN JAbsent
    ELSE IF Len(list[1]) = 0 THEN JNull
    ELSE JArray([i \in DOMAIN list[1] |-> JString(list[1][i][1])])

\* The member that MarshalJSON writes for Action (and NotAction). A list
\* without elements is the nil slice that UnmarshalJSON makes of an array
\* without strings; json.Marshal writes it as null.
marshalAction(list) ==
    IF list = Nil THEN JAbsent
    ELSE IF Len(list[1]) = 1 THEN JString(list[1][1][1])
    ELSE IF Len(list[1]) = 0 THEN JNull
    ELSE JArray([i \in DOMAIN list[1] |-> JString(list[1][i][1])])

\* rolePolicyStatement.MarshalJSON.
MarshalJSON(s) ==
    [Effect |-> IF s.Effect = Nil THEN JAbsent ELSE JString(s.Effect[1][1]),
     Action |-> marshalAction(s.Action),
     NotAction |-> marshalAction(s.NotAction)]

\* json.Unmarshal of a statement.
Decode(data) ==
    /\ cpc = "idle"
    /\ cpc' = "decoded"
    /\ codecIn' = data
    /\ codecStmt' = UnmarshalJSON(data)
    /\ codecOut' = <<>>
    /\ UNCHANGED <<baselineVars, envConfig, phase, inputVars, callVars, handleVars,
                   azureVars, gcpVars, roleRun, edits, job>>

\* json.Marshal of the statement that was decoded.
Encode ==
    /\ cpc = "decoded"
    /\ codecStmt.err = NoError
    /\ cpc' = "encoded"
    /\ codecOut' = MarshalJSON(codecStmt.stmt)
    /\ UNCHANGED <<baselineVars, envConfig, phase, inputVars, callVars, handleVars,
                   codecIn, codecStmt, azureVars, gcpVars, roleRun, edits, job>>

\* json.Unmarshal of what was encoded.
Redecode ==
    /\ cpc = "encoded"
    /\ cpc' = "decoded"
    /\ codecIn' = codecOut
    /\ codecStmt' = UnmarshalJSON(codecOut)
    /\ codecOut' = <<>>
    /\ UNCHANGED <<baselineVars, envConfig, phase, inputVars, callVars, handleVars,
                   azureVars, gcpVars, roleRun, edits, job>>

NextCodec ==
    \/ \E data \in JStatements : Decode(data)
    \/ Encode
    \/ Redecode

SpecCodec == Init /\ [][NextCodec]_vars

(***************************************************************************)
(* Properties of the codec.                                                *)
(***************************************************************************)
ListMembers == {"Action", "NotAction"}

\* C11: a member Action (or NotAction) that is the bare string x and one that
\* is the array [x] decode to the same list of the one element x, so that the
\* comparison sees no difference between the two encodings.
C11_BareStringAndArrayDecodeAlike ==
    (cpc = "decoded" /\ codecStmt.err = NoError) =>
        \A f \in ListMembers, x \in ActionNames :
            (codecIn[f] = JString(x) \/ codecIn[f] = JArray(<<JString(x)>>))
                => codecStmt.stmt[f] = Ptr(<<S(x)>>)

\* C11's case: one statement with the bare string as its Action and the
\* array of the same string as its NotAction.
C11_Witness ==
    /\ cpc = "decoded"
    /\ codecStmt.err = NoError
    /\ codecIn.Action = JString("iam:Update*")
    /\ codecIn.NotAction = JArray(<<JString("iam:Update*")>>)
    /\ codecStmt.stmt.Action = Ptr(<<S("iam:Update*")>>)
    /\ codecStmt.stmt.NotAction = codecStmt.stmt.Action

\* C12: MarshalJSON writes Action (and NotAction) as a bare string when the
\* list has exactly one element and as an array of all its elements when it
\* has two or more.
C12_EncodingShape ==
    cpc = "encoded" =>
        \A f \in ListMembers :
            codecStmt.stmt[f] # Nil =>
                LET list == codecStmt.stmt[f][1]
                IN  /\ Len(list) = 1 => codecOut[f] = JString(list[1][1])
                    /\ Len(list) >= 2 =>
                          /\ codecOut[f].kind = "array"
                          /\ codecOut[f].elems = [i \in DOMAIN list |-> JString(list[i][1])]

\* C12's case: a statement with one action and two not-actions was encoded.
C12_Witness ==
    /\ cpc = "encoded"
    /\ codecStmt.stmt.Action # Nil
    /\ Len(codecStmt.stmt.Action[1]) = 1
    /\ codecOut.Action.kind = "string"
    /\ codecStmt.stmt.NotAction # Nil
    /\ Len(codecStmt.stmt.NotAction[1]) = 2
    /\ codecOut.NotAction.kind = "array"

\* The value is neither a string nor an array of strings.
Malformed(v) ==
    \/ v.kind \in {"number", "object"}
    \/ v.kind = "array" /\ \E i \in DOMAIN v.elems : v.elems[i].kind # "string"

\* C13: decoding a statement whose Action or NotAction is neither a string
\* nor an array of strings returns a decode error.
C13_MalformedActionIsDecodeError ==
    (cpc = "decoded" /\ \E f \in ListMembers : Malformed(codecIn[f]))
        => codecStmt.err # NoError

(***************************************************************************)
(* The Azure and GCP role checkers. Both compare a flat list of permission *)
(* names against a constant set of expected names. An error of these       *)
(* checkers is a pointer to its type, its text and, for the type           *)
(* RoleMissingPermissions, the list of names it carries.                   *)
(***************************************************************************)
MaxBlocks == 2

MaxActions == 2

MaxNames == 3

MaxLines == 2

\* The number of times that the wait finds the pod still running.
MaxPolls == 1

cloudError(type, msg, missing) ==
    Ptr([type |-> type, msg |-> msg, missingPermissions |-> missing])

errorsNewPrefixed(text) == cloudError("errorString", S("pod failed: ") \o text, <<>>)

errorsNew(text) == cloudError("errorString", text, <<>>)

RECURSIVE Join(_, _)
Join(list, sep) ==
    IF list = <<>> THEN <<>>
    ELSE IF Len(list) = 1 THEN list[1]
    ELSE list[1] \o <<sep>> \o Join(Tail(list), sep)

RECURSIVE Split(_, _)
Split(s, sep) ==
    IF \A i \in DOMAIN s : s[i] # sep THEN <<s>>
    ELSE LET i == CHOOSE k \in DOMAIN s : s[k] = sep /\ \A j \in 1..(k - 1) : s[j] # sep
         IN  <<SubSeq(s, 1, i - 1)>> \o Split(SubSeq(s, i + 1, Len(s)), sep)

NewRoleMissingPermissions(missing) ==
    cloudError("RoleMissingPermissions",
               S("role missing permissions: ") \o Join(missing, ", "), missing)

errRoleIDNotFound == errorsNew(S("role ID not found"))

errDuplicatePermission == errorsNew(S("duplicate permission"))

errMoreThanOneLogLine == errorsNew(S("got more than 1 log line"))

ErrFailedToGetPod == errorsNew(S("failed to get Pod"))

errFailedToGetPodLogStream == errorsNew(S("failed to get Pod log stream"))

errFailedToReadPodLogStream == errorsNew(S("failed to read Pod log stream"))

\* An error that a client of the cloud or of the cluster returned.
errClient == errorsNew(S("client error"))

Returned(e) == [returned |-> TRUE, err |-> e, logged |-> FALSE]

(***************************************************************************)
(* Azure. Two of the expected names stand for the whole constant, and one  *)
(* more name is a permission the role may hold beyond them.                *)
(***************************************************************************)
constExpectedRolePermissionsAzure ==
    {S("Microsoft.Authorization/policies/audit/action"),
     S("Microsoft.Authorization/roleAssignments/read")}

AzureNames == constExpectedRolePermissionsAzure \cup {S("Microsoft.Resources/subscriptions/read")}

AzureBlocks ==
    {[Actions |-> a] : a \in {Nil} \cup {Ptr(l) : l \in SeqsUpTo(AzureNames, MaxActions)}}

AzurePermissions == SeqsUpTo(AzureBlocks, MaxBlocks)

CrossplaneRoleName == "crossplane-provider-cluster"

AzureRoleNames == {CrossplaneRoleName, "Reader"}

RECURSIVE scanActions(_, _)
scanActions(actions, found) ==
    IF actions = <<>> THEN [dup |-> FALSE, found |-> found]
    ELSE IF Head(actions) \in found THEN [dup |-> TRUE, found |-> found]
    ELSE scanActions(Tail(actions), found \cup {Head(actions)})

RECURSIVE scanPermissionsPerBlock(_, _)
scanPermissionsPerBlock(permissions, found) ==
    IF permissions = <<>> THEN [dup |-> FALSE, found |-> found]
    ELSE IF Head(permissions).Actions = Nil THEN scanPermissionsPerBlock(Tail(permissions), found)
    ELSE LET r == scanActions(Head(permissions).Actions[1], {})
         IN  IF r.dup THEN r
             ELSE scanPermissionsPerBlock(Tail(permissions), found \cup r.found)

RECURSIVE scanPermissions(_, _)
scanPermissions(permissions, found) ==
    IF permissions = <<>> THEN [dup |-> FALSE, found |-> found]
    ELSE IF Head(permissions).Actions = Nil THEN scanPermissions(Tail(permissions), found)
    ELSE LET r == scanActions(Head(permissions).Actions[1], found)
         IN  IF r.dup THEN r ELSE scanPermissions(Tail(permissions), r.found)

\* The loop over the expected names, in the order the map yields them.
azureMissingPermissions(foundPermissions, order) ==
    SelectSeq(order, LAMBDA k : k \notin foundPermissions)

\* Handle from the scan of the permission blocks to its return.
azureCheck(permissions, order) ==
    LET r == scanPermissions(permissions, {})
    IN  IF r.dup THEN errDuplicatePermission
        ELSE LET missingPermissions == azureMissingPermissions(r.found, order)
             IN  IF Len(missingPermissions) > 0
                 THEN NewRoleMissingPermissions(missingPermissions)
                 ELSE NoError

\* The pager: it fails, or it lists roles and Handle looks for the role
\* of the cluster among them.
AzureListRoles ==
    /\ apc = "start"
    /\ gpc = "start"
    /\ \/ /\ apc' = "done"
          /\ azureResult' = Returned(errClient)
       \/ \E roles \in SUBSET AzureRoleNames :
             IF CrossplaneRoleName \in roles
             THEN /\ apc' = "get"
                  /\ UNCHANGED azureResult
             ELSE /\ apc' = "done"
                  /\ azureResult' = Returned(errRoleIDNotFound)
    /\ UNCHANGED <<baselineVars, envConfig, phase, inputVars, callVars, handleVars,
                   codecVars, roleRun, edits, job, azureRole, gcpVars>>

\* roleDefClient.Get fails, or it returns the role definition and Handle
\* checks its permission blocks.
AzureGetRole ==
    /\ apc = "get"
    /\ apc' = "done"
    /\ \/ /\ azureResult' = Returned(errClient)
          /\ UNCHANGED azureRole
       \/ \E permissions \in AzurePermissions,
             order \in KeyOrders(constExpectedRolePermissionsAzure) :
             /\ azureRole' = Ptr(permissions)
             /\ azureResult' = Returned(azureCheck(permissions, order))
    /\ UNCHANGED <<baselineVars, envConfig, phase, inputVars, callVars, handleVars,
                   codecVars, roleRun, edits, job, gcpVars>>

(***************************************************************************)
(* GCP. The pod prints the permissions of the role on one line, separated  *)
(* by semicolons. A line is a sequence of atoms; the separator and the     *)
(* blank are atoms of their own.                                           *)
(***************************************************************************)
constExpectedRolePermissionsGCP ==
    {S("cloudsql.backupRuns.create"), S("cloudsql.backupRuns.delete")}

GCPNames == constExpectedRolePermissionsGCP \cup {S("compute.instances.list")}

PodSucceeded == "Succeeded"

PodFailed == "Failed"

PodUnknown == "Unknown"

Separator == ";"

Blank == " "

\* The lines the pod prints when the role has permissions to show.
PermissionLines == {Join(names, Separator) : names \in SeqsUpTo(GCPNames, MaxNames) \ {<<>>}}

\* What the script prints when it fails, and lines without any text.
OtherLines == {<<>>, <<Blank>>, S("No uxp_provider role found")}

ReplaceAt(s, i, e) == [s EXCEPT ![i] = e]

\* The log streams: lines of the script, at most one of them a line of
\* permissions.
LogStreams ==
    LET others == SeqsUpTo(OtherLines, MaxLines)
    IN  others \cup UNION {{ReplaceAt(s, i, l) : i \in DOMAIN s, l \in PermissionLines} :
                               s \in others}

RECURSIVE TrimSpace(_)
TrimSpace(s) ==
    IF s = <<>> THEN s
    ELSE IF Head(s) = Blank THEN TrimSpace(Tail(s))
    ELSE IF s[Len(s)] = Blank THEN TrimSpace(SubSeq(s, 1, Len(s) - 1))
    ELSE s

\* The scanner loop of PodLogs: the trimmed lines that are not empty.
RECURSIVE PodLogs(_)
PodLogs(stream) ==
    IF stream = <<>> THEN <<>>
    ELSE LET trimmedLine == TrimSpace(Head(stream))
         IN  IF trimmedLine # <<>> THEN <<trimmedLine>> \o PodLogs(Tail(stream))
             ELSE PodLogs(Tail(stream))

\* The first name only.
gcpMissingPermissionsFirstOnly(permissions, order) ==
    LET missing == SelectSeq(order, LAMBDA expectedPermission :
                        \A i \in DOMAIN permissions : permissions[i] # expectedPermission)
    IN  IF missing = <<>> THEN missing ELSE <<Head(missing)>>

\* A name that occurs twice in the line is not counted as found.
gcpMissingPermissionsOnce(permissions, order) ==
    SelectSeq(order, LAMBDA expectedPermission :
        Cardinality({i \in DOMAIN permissions : permissions[i] = expectedPermission}) # 1)

\* The loop over the expected names, in the order the map yields them, with
\* the inner loop over the names of the line.
gcpMissingPermissions(permissions, order) ==
    SelectSeq(order, LAMBDA expectedPermission :
        \A i \in DOMAIN permissions : permissions[i] # expectedPermission)

Outcome(kind, e, split, compared) ==
    [kind |-> kind, err |-> e, split |-> split, compared |-> compared]

\* The phase is looked at before the number of lines.
checkLogsPhaseFirst(endPhase, logLines, order) ==
    IF Len(logLines) = 0 THEN Outcome("panic", NoError, FALSE, FALSE)
    ELSE IF endPhase = PodFailed THEN Outcome("return", errorsNew(logLines[1]), FALSE, FALSE)
    ELSE IF Len(logLines) > 1 THEN Outcome("return", errMoreThanOneLogLine, FALSE, FALSE)
    ELSE LET permissions == Split(logLines[1], Separator)
             missingPermissions == gcpMissingPermissions(permissions, order)
         IN  IF Len(missingPermissions) > 0
             THEN Outcome("return", NewRoleMissingPermissions(missingPermissions), TRUE, TRUE)
             ELSE Outcome("continue", NoError, TRUE, TRUE)

\* Handle from the logs to the comparison: it returns, it goes on to delete
\* the pod, or it panics on logs[0] of an empty slice.
checkLogs(endPhase, logLines, order) ==
    IF Len(logLines) > 1 THEN Outcome("return", errMoreThanOneLogLine, FALSE, FALSE)
    ELSE IF Len(logLines) = 0 THEN Outcome("panic", NoError, FALSE, FALSE)
    ELSE IF endPhase = PodFailed THEN Outcome("return", errorsNew(logLines[1]), FALSE, FALSE)
    ELSE LET permissions == Split(logLines[1], Separator)
             missingPermissions == gcpMissingPermissions(permissions, order)
         IN  IF Len(missingPermissions) > 0
             THEN Outcome("return", NewRoleMissingPermissions(missingPermissions), TRUE, TRUE)
             ELSE Outcome("continue", NoError, TRUE, TRUE)

gcpReturn(e) ==
    /\ gpc' = "done"
    /\ gcpResult' = Returned(e)

\* What clientsetPod.Get can answer at the start of Handle: the pod of an
\* earlier run, a not-found error, or another error.
GetOutcomes(cluster) ==
    IF cluster = "exists" THEN {"exists", "error"} ELSE {"notFound", "error"}

\* A Handle that takes every error of the Get for a not-found error.
afterGetIgnoreError(found) == IF found = "exists" THEN "deleteOld" ELSE "create"

\* Where Handle goes after the Get: err == nil, IsNotFound(err), any other err.
afterGet(found) ==
    CASE found = "exists" -> "deleteOld"
      [] found = "notFound" -> "create"
      [] OTHER -> "return"

\* clientsetPod.Get of the pod of an earlier run.
GCPGetPod ==
    /\ gpc = "start"
    /\ apc = "start"
    /\ \E found \in GetOutcomes(pod) :
          /\ gcpTrace' = [gcpTrace EXCEPT !.found = found]
          /\ IF afterGet(found) = "return"
             THEN gcpReturn(errClient)
             ELSE gpc' = afterGet(found) /\ UNCHANGED gcpResult
    /\ UNCHANGED <<baselineVars, envConfig, phase, inputVars, callVars, handleVars,
                   codecVars, roleRun, edits, job, azureVars, gcpCheckerResult,
                   pod, podPhase, logs>>

\* clientsetPod.Delete of the pod of an earlier run.
GCPDeleteOldPod ==
    /\ gpc = "deleteOld"
    /\ \/ /\ pod' = "absent"
          /\ gcpTrace' = [gcpTrace EXCEPT !.deletedOld = TRUE]
          /\ gpc' = "create"
          /\ UNCHANGED gcpResult
       \/ /\ gcpReturn(errClient)
          /\ UNCHANGED <<pod, gcpTrace>>
    /\ UNCHANGED <<baselineVars, envConfig, phase, inputVars, callVars, handleVars,
                   codecVars, roleRun, edits, job, azureVars, gcpCheckerResult,
                   podPhase, logs>>

\* clientsetPod.Create.
GCPCreatePod ==
    /\ gpc = "create"
    /\ \/ /\ pod' = "exists"
          /\ gcpTrace' = [gcpTrace EXCEPT !.created = TRUE]
          /\ gpc' = "wait"
          /\ UNCHANGED gcpResult
       \/ /\ gcpReturn(errClient)
          /\ UNCHANGED <<pod, gcpTrace>>
    /\ UNCHANGED <<baselineVars, envConfig, phase, inputVars, callVars, handleVars,
                   codecVars, roleRun, edits, job, azureVars, gcpCheckerResult,
                   podPhase, logs>>

\* The phases in which a Get can find a pod that has not ended.
RunningPhases == {"Pending", "Running"}

\* A wait that ends with the first phase it reads.
waitForPodStepAnyPhase(getFails, p) ==
    IF getFails THEN [kind |-> "return", phase |-> PodUnknown, err |-> ErrFailedToGetPod]
    ELSE [kind |-> "break", phase |-> p, err |-> NoError]

\* One pass of the loop of WaitForPodToSucceedOrFail: the Get fails, or it
\* reads the phase p.
waitForPodStep(getFails, p) ==
    IF getFails THEN [kind |-> "return", phase |-> PodUnknown, err |-> ErrFailedToGetPod]
    ELSE IF p = PodSucceeded THEN [kind |-> "break", phase |-> p, err |-> NoError]
    ELSE IF p = PodFailed THEN [kind |-> "break", phase |-> p, err |-> NoError]
    ELSE [kind |-> "sleep", phase |-> p, err |-> NoError]

\* WaitForPodToSucceedOrFail, one pass of its loop at a time: it returns the
\* phase in which the pod ended, or the error of its Get, or it sleeps and
\* reads again.
GCPWaitForPod ==
    /\ gpc = "wait"
    /\ \E getFails \in BOOLEAN, p \in RunningPhases \cup {PodSucceeded, PodFailed} :
          LET step == waitForPodStep(getFails, p)
          IN  CASE step.kind = "return" ->
                     /\ gcpReturn(step.err)
                     /\ podPhase' = step.phase
                     /\ UNCHANGED gcpTrace
                [] step.kind = "break" ->
                     /\ podPhase' = step.phase
                     /\ gpc' = "logs"
                     /\ UNCHANGED <<gcpResult, gcpTrace>>
                [] OTHER ->
                     /\ gcpTrace.polls < MaxPolls
                     /\ gcpTrace' = [gcpTrace EXCEPT !.polls = @ + 1]
                     /\ UNCHANGED <<gpc, podPhase, gcpResult>>
    /\ UNCHANGED <<baselineVars, envConfig, phase, inputVars, callVars, handleVars,
                   codecVars, roleRun, edits, job, azureVars, gcpCheckerResult,
                   pod, logs>>

\* kubeutil.PodLogs: the stream cannot be opened or read, or its lines are
\* returned.
GCPPodLogs ==
    /\ gpc = "logs"
    /\ \/ \E stream \in LogStreams :
             /\ logs' = PodLogs(stream)
             /\ gpc' = "check"
             /\ UNCHANGED gcpResult
       \/ \E e \in {errFailedToGetPodLogStream, errFailedToReadPodLogStream} :
             /\ gcpReturn(e)
             /\ UNCHANGED logs
    /\ UNCHANGED <<baselineVars, envConfig, phase, inputVars, callVars, handleVars,
                   codecVars, roleRun, edits, job, azureVars, gcpCheckerResult,
                   pod, podPhase, gcpTrace>>

\* Handle from the number of lines to the comparison of the permissions.
GCPCheckLogs ==
    /\ gpc = "check"
    /\ \E order \in KeyOrders(constExpectedRolePermissionsGCP) :
          LET o == checkLogs(podPhase, logs, order)
          IN  /\ gcpTrace' = [gcpTrace EXCEPT !.split = o.split, !.compared = o.compared]
              /\ CASE o.kind = "return" -> gcpReturn(o.err)
                   [] o.kind = "panic" -> gpc' = "panicked" /\ UNCHANGED gcpResult
                   [] OTHER -> gpc' = "delete" /\ UNCHANGED gcpResult
    /\ UNCHANGED <<baselineVars, envConfig, phase, inputVars, callVars, handleVars,
                   codecVars, roleRun, edits, job, azureVars, gcpCheckerResult,
                   pod, podPhase, logs>>

\* clientsetPod.Delete of the pod of this run, after a comparison that found
\* every expected name.
GCPDeletePod ==
    /\ gpc = "delete"
    /\ gcpTrace' = [gcpTrace EXCEPT !.deleted = TRUE]
    /\ \/ /\ pod' = "absent"
          /\ gcpReturn(NoError)
       \/ /\ gcpReturn(errClient)
          /\ UNCHANGED pod
    /\ UNCHANGED <<baselineVars, envConfig, phase, inputVars, callVars, handleVars,
                   codecVars, roleRun, edits, job, azureVars, gcpCheckerResult,
                   podPhase, logs>>

\* The check is run again: Handle starts over and finds the cluster as the
\* run before it left it.
GCPHandleAgain ==
    /\ \/ gpc = "panicked"
       \/ gpc = "done" /\ gcpCheckerResult.returned
    /\ gpc' = "start"
    /\ podPhase' = "Unknown"
    /\ logs' = <<>>
    /\ gcpTrace' = [found |-> "none", deletedOld |-> FALSE, created |-> FALSE, polls |-> 0,
                   deleted |-> FALSE, split |-> FALSE, compared |-> FALSE]
    /\ gcpResult' = NoResult
    /\ gcpCheckerResult' = NoResult
    /\ UNCHANGED <<baselineVars, envConfig, phase, inputVars, callVars, handleVars,
                   codecVars, roleRun, edits, job, azureVars, pod>>

\* GCPChecker.Handle from the return of the role checker to its own return.
gcpCheckerHandle(e) ==
    IF e # NoError
    THEN [returned |-> TRUE, err |-> errorsNew(S(ErrFailedToCheckCrossplaneRole)), logged |-> FALSE]
    ELSE [returned |-> TRUE, err |-> NoError, logged |-> TRUE]

\* GCPChecker.Handle: the role checker has returned to it.
GCPCheckerHandle ==
    /\ gpc = "done"
    /\ ~gcpCheckerResult.returned
    /\ gcpCheckerResult' = gcpCheckerHandle(gcpResult.err)
    /\ UNCHANGED <<baselineVars, envConfig, phase, inputVars, callVars, handleVars,
                   codecVars, roleRun, edits, job, azureVars, gpc, pod, podPhase, logs, gcpTrace, gcpResult>>

NextCloud ==
    \/ AzureListRoles
    \/ AzureGetRole
    \/ GCPGetPod
    \/ GCPDeleteOldPod
    \/ GCPCreatePod
    \/ GCPWaitForPod
    \/ GCPPodLogs
    \/ GCPCheckLogs
    \/ GCPDeletePod
    \/ GCPHandleAgain
    \/ GCPCheckerHandle

SpecCloud == Init /\ [][NextCloud]_vars

(***************************************************************************)
(* Properties of the Azure and GCP role checkers.                          *)
(***************************************************************************)
NoDuplicates(list) == \A i, j \in DOMAIN list : list[i] = list[j] => i = j

RECURSIVE AllActions(_)
AllActions(permissions) ==
    IF permissions = <<>> THEN <<>>
    ELSE IF Head(permissions).Actions = Nil THEN AllActions(Tail(permissions))
    ELSE Head(permissions).Actions[1] \o AllActions(Tail(permissions))

\* The action strings of the role definition that Handle compared.
AzureObserved == AllActions(azureRole[1])

AzureCompared == apc = "done" /\ azureRole # Nil

\* The names that Handle split from the one line of the pod.
GCPObserved == Split(logs[1], Separator)

\* The verdict of the comparison in the GCP checker: after a comparison
\* that found every name Handle goes on to delete the pod, otherwise it
\* returns the error of the comparison.
GCPVerdict == IF gpc = "delete" \/ gcpTrace.deleted THEN NoError ELSE gcpResult.err

IsMissingPermissions(e, missing) ==
    /\ e # NoError
    /\ e[1].type = "RoleMissingPermissions"
    /\ Range(e[1].missingPermissions) = missing
    /\ Len(e[1].missingPermissions) = Cardinality(missing)
    /\ e[1].msg = S("role missing permissions: ") \o Join(e[1].missingPermissions, ", ")

FlatVerdict(expected, observed, e) ==
    LET missing == expected \ Range(observed)
    IN  IF missing = {} THEN e = NoError ELSE IsMissingPermissions(e, missing)

(***************************************************************************)
(* C14: for an observed list without duplicates, the Azure and the GCP     *)
(* comparison succeed exactly when every expected name occurs in the list; *)
(* otherwise the error is RoleMissingPermissions and lists the expected    *)
(* names that are absent, each once and no other name. Names beyond the    *)
(* expected ones never make the comparison fail.                           *)
(***************************************************************************)
C14_FlatValidator ==
    /\ (AzureCompared /\ NoDuplicates(AzureObserved))
          => FlatVerdict(constExpectedRolePermissionsAzure, AzureObserved, azureResult.err)
    /\ (gcpTrace.compared /\ NoDuplicates(GCPObserved))
          => /\ gpc \in {"delete", "done"}
             /\ FlatVerdict(constExpectedRolePermissionsGCP, GCPObserved, GCPVerdict)

\* Azure compared the list of one expected name and one name beyond the
\* expected ones, and returned the other expected name as missing.
C14_Witness ==
    /\ AzureCompared
    /\ NoDuplicates(AzureObserved)
    /\ Len(AzureObserved) = 2
    /\ Range(AzureObserved) \ constExpectedRolePermissionsAzure # {}
    /\ Cardinality(constExpectedRolePermissionsAzure \ Range(AzureObserved)) = 1
    /\ azureResult.err # NoError
    /\ azureResult.err[1].type = "RoleMissingPermissions"

(***************************************************************************)
(* C15: when an action string occurs twice among the actions of all the    *)
(* permission blocks of the Azure role definition, Handle returns          *)
(* errDuplicatePermission, also when expected permissions are missing.     *)
(***************************************************************************)
C15_AzureDuplicateFirst ==
    (AzureCompared /\ ~NoDuplicates(AzureObserved))
        => azureResult.err = errDuplicatePermission

\* The same action in two blocks, and an expected permission in none.
C15_Witness ==
    /\ AzureCompared
    /\ Len(azureRole[1]) = 2
    /\ \A i \in 1..2 : /\ azureRole[1][i].Actions # Nil
                       /\ NoDuplicates(azureRole[1][i].Actions[1])
    /\ ~NoDuplicates(AzureObserved)
    /\ constExpectedRolePermissionsAzure \ Range(AzureObserved) # {}
    /\ azureResult.err = errDuplicatePermission

(***************************************************************************)
(* C16 as stated: when a name occurs twice in the line of the pod, the GCP *)
(* check fails with the duplicate-permission error.                        *)
(***************************************************************************)
C16_GCPDuplicateFails ==
    (gcpTrace.compared /\ ~NoDuplicates(GCPObserved))
        => (gpc = "done" /\ gcpResult.err = errDuplicatePermission)

(***************************************************************************)
(* C16 amended: the GCP comparison has no duplicate guard. A line in which *)
(* a name occurs twice is judged by the set of its names: the comparison   *)
(* succeeds when every expected name occurs, otherwise the error lists the *)
(* absent names; the error is never errDuplicatePermission.                *)
(***************************************************************************)
C16_GCPDuplicatesIgnored ==
    (gcpTrace.compared /\ ~NoDuplicates(GCPObserved))
        => /\ gpc \in {"delete", "done"}
           /\ FlatVerdict(constExpectedRolePermissionsGCP, GCPObserved, GCPVerdict)
           /\ gcpResult.err # errDuplicatePermission

\* Every expected name is in the line, one of them twice, and Handle went
\* on to delete the pod and returned without an error.
C16_Witness ==
    /\ gcpTrace.compared
    /\ ~NoDuplicates(GCPObserved)
    /\ constExpectedRolePermissionsGCP \subseteq Range(GCPObserved)
    /\ gpc = "done"
    /\ gcpResult.err = NoError

(***************************************************************************)
(* C17: when PodLogs returned more than one line, Handle returns           *)
(* errMoreThanOneLogLine and has neither split nor compared a line, in the *)
(* phase Succeeded and in the phase Failed.                                *)
(***************************************************************************)
C17_MoreThanOneLine ==
    (Len(logs) > 1 /\ gpc # "check")
        => /\ gpc = "done"
           /\ gcpResult.err = errMoreThanOneLogLine
           /\ ~gcpTrace.split
           /\ ~gcpTrace.compared

\* Two lines from a pod that failed, the first one a line of permissions.
C17_Witness ==
    /\ gpc = "done"
    /\ podPhase = PodFailed
    /\ Len(logs) = 2
    /\ logs[1] \in PermissionLines
    /\ gcpResult.err = errMoreThanOneLogLine

(***************************************************************************)
(* C18 as stated: when the log of the pod has no line that is not empty,   *)
(* Handle returns an error.                                                *)
(***************************************************************************)
C18_NoLineIsAnError ==
    (podPhase # "Unknown" /\ Len(logs) = 0 /\ gpc \notin {"logs", "check"})
        => (gpc = "done" /\ gcpResult.err # NoError)

(***************************************************************************)
(* C19 as stated: whenever Handle has returned after it created the pod,   *)
(* it has issued a delete of the pod.                                      *)
(***************************************************************************)
C19_PodDeletedOnEveryReturn ==
    (gpc = "done" /\ gcpTrace.created) => gcpTrace.deleted

(***************************************************************************)
(* C20: when the pod ended in the phase Failed and PodLogs returned one    *)
(* line, Handle returns an error whose text is that line and has compared  *)
(* no permission.                                                          *)
(***************************************************************************)
C20_FailedLineIsTheError ==
    (podPhase = PodFailed /\ Len(logs) = 1 /\ gpc # "check")
        => /\ gpc = "done"
           /\ gcpResult.err # NoError
           /\ gcpResult.err[1].msg = logs[1]
           /\ ~gcpTrace.split
           /\ ~gcpTrace.compared

\* The pod failed and printed the one line of the script.
C20_Witness ==
    /\ gpc = "done"
    /\ podPhase = PodFailed
    /\ logs = <<S("No uxp_provider role found")>>
    /\ gcpResult.err # NoError
    /\ gcpResult.err[1].msg = S("No uxp_provider role found")

\* The text holds the part as a run of consecutive atoms.
Contains(text, part) ==
    \E i \in 0..(Len(text) - Len(part)) : SubSeq(text, i + 1, i + Len(part)) = part

\* The error of the caller holds the text of the error it was caused by.
CarriesCause(e, cause) == e # NoError /\ Contains(e[1].msg, cause[1].msg)

(***************************************************************************)
(* C21 as stated: when the GCP role checker returned a missing-permissions *)
(* error or the line of the failed pod, the error that GCPChecker.Handle   *)
(* returns still carries it: the list of names, or the line.               *)
(***************************************************************************)
C21_CauseReachesCaller ==
    (gcpCheckerResult.returned /\ gcpResult.err # NoError
        /\ (gcpTrace.compared \/ (podPhase = PodFailed /\ Len(logs) = 1)))
        => /\ CarriesCause(gcpCheckerResult.err, gcpResult.err)
           /\ gcpCheckerResult.err[1].missingPermissions = gcpResult.err[1].missingPermissions

(***************************************************************************)
(* AWSCrossplaneRoleChecker.Handle, one IAM call at a time. roleRun holds  *)
(* the place Handle has reached, the IAM calls it has issued, the suffixes *)
(* the loop has yet to visit (in the order the map yields them), the       *)
(* answer to ListPolicyVersions that the call in progress holds, the       *)
(* outcome of every document it has finished, and what it returned.        *)
(***************************************************************************)
IAMCall(call, doc) == [call |-> call, doc |-> doc]

Verdict(doc, e) == [doc |-> doc, err |-> e]

\* The loop goes on whatever the document returned.
afterDocumentContinue(e) == "policies"

\* `if err != nil { return nil, err }` after a document.
afterDocument(e) == IF e # NoError THEN "done" ELSE "policies"

RoleOrders(c) ==
    KeyOrders(ConditionKeys(fillDocument(Template("trust"), c))
              \cup ConditionKeys(fillDocument(Template("policy"), c)))

\* What IAM may answer for the policy of a suffix.
PolicyAnswersFor(suffix, c) ==
    BadPolicyAnswers \cup {Answer("none", fillDocument(Template(suffix), c))}

\* The state after the document doc returned r.
RoleDocumentDone(doc, call, r, todo) ==
    roleRun' = [roleRun EXCEPT !.pc = afterDocument(r.err),
                               !.calls = Append(roleRun.calls, IAMCall(call, doc)),
                               !.todo = todo,
                               !.verdicts = Append(roleRun.verdicts, Verdict(doc, r.err)),
                               !.err = r.err]

\* iam.GetRole and the validation of the trust policy.
RoleGetRole ==
    /\ roleRun.pc = "start"
    /\ \E role \in RoleAnswers(envConfig), order \in RoleOrders(envConfig),
          suffixes \in KeyOrders(PolicySuffixes) :
            /\ RoleDocumentDone("trust", "GetRole",
                    getRole(role, constExpectedAssumeRolePolicyDocument, envConfig, order),
                    suffixes)
            /\ constExpectedAssumeRolePolicyDocument' =
                    getRole(role, constExpectedAssumeRolePolicyDocument, envConfig, order).expected
    /\ UNCHANGED <<constExpectedPolicyDocuments, envConfig, phase, inputVars, callVars,
                   handleVars, codecVars, azureVars, gcpVars, edits, job>>

\* processPolicyDocument up to its default version: iam.ListPolicyVersions
\* for the next suffix of the loop.
RoleListPolicyVersions ==
    /\ roleRun.pc = "policies"
    /\ roleRun.todo # <<>>
    /\ \E answer \in PolicyAnswersFor(Head(roleRun.todo), envConfig) :
          IF answer.fails \in {"ListPolicyVersions", "NoDefaultVersion"}
          THEN RoleDocumentDone(Head(roleRun.todo), "ListPolicyVersions",
                    processPolicyDocument(answer, constExpectedPolicyDocuments[Head(roleRun.todo)],
                                          envConfig, <<>>),
                    Tail(roleRun.todo))
          ELSE roleRun' = [roleRun EXCEPT
                    !.pc = "version",
                    !.calls = Append(roleRun.calls,
                                     IAMCall("ListPolicyVersions", Head(roleRun.todo))),
                    !.pending = answer]
    /\ UNCHANGED <<baselineVars, envConfig, phase, inputVars, callVars, handleVars,
                   codecVars, azureVars, gcpVars, edits, job>>

\* processPolicyDocument from iam.GetPolicyVersion to its return.
RoleGetPolicyVersion ==
    /\ roleRun.pc = "version"
    /\ \E order \in RoleOrders(envConfig) :
          /\ RoleDocumentDone(Head(roleRun.todo), "GetPolicyVersion",
                    processPolicyDocument(roleRun.pending,
                                          constExpectedPolicyDocuments[Head(roleRun.todo)],
                                          envConfig, order),
                    Tail(roleRun.todo))
          /\ constExpectedPolicyDocuments' =
                [constExpectedPolicyDocuments EXCEPT ![Head(roleRun.todo)] =
                    processPolicyDocument(roleRun.pending,
                                          constExpectedPolicyDocuments[Head(roleRun.todo)],
                                          envConfig, order).expected]
    /\ UNCHANGED <<constExpectedAssumeRolePolicyDocument, envConfig, phase, inputVars, callVars,
                   handleVars, codecVars, azureVars, gcpVars, edits, job>>

\* The loop has visited every suffix: return nil, nil.
RoleReturn ==
    /\ roleRun.pc = "policies"
    /\ roleRun.todo = <<>>
    /\ roleRun' = [roleRun EXCEPT !.pc = "done", !.err = NoError]
    /\ UNCHANGED <<baselineVars, envConfig, phase, inputVars, callVars, handleVars,
                   codecVars, azureVars, gcpVars, edits, job>>

NextRole ==
    \/ RoleGetRole
    \/ RoleListPolicyVersions
    \/ RoleGetPolicyVersion
    \/ RoleReturn

SpecRole == Init /\ [][NextRole]_vars

(***************************************************************************)
(* Properties of AWSCrossplaneRoleChecker.Handle, call by call.            *)
(***************************************************************************)
LastOf(seq) == seq[Len(seq)]

\* The calls of one document are next to each other, and no call is issued
\* twice.
OneAtATime(issued) ==
    /\ \A i, j \in DOMAIN issued : issued[i] = issued[j] => i = j
    /\ \A i, j, k \in DOMAIN issued :
          (i < j /\ j < k /\ issued[i].doc = issued[k].doc) => issued[j].doc = issued[i].doc

(***************************************************************************)
(* C22: the role check is sequential and fail-fast. No call for a managed  *)
(* policy is issued before GetRole was issued and the trust policy passed  *)
(* its validation; the calls of one document are issued together, one      *)
(* document after the other; no document is looked at after one that       *)
(* failed; and when a document failed, Handle has returned the error of    *)
(* that document and its last IAM call is a call for that document.        *)
(***************************************************************************)
C22_SequentialFailFast ==
    /\ \A i \in DOMAIN roleRun.calls :
          roleRun.calls[i].call # "GetRole"
              => /\ roleRun.calls[1] = IAMCall("GetRole", "trust")
                 /\ roleRun.verdicts # <<>>
                 /\ roleRun.verdicts[1] = Verdict("trust", NoError)
    /\ OneAtATime(roleRun.calls)
    /\ \A i \in DOMAIN roleRun.verdicts :
          i < Len(roleRun.verdicts) => roleRun.verdicts[i].err = NoError
    /\ (roleRun.verdicts # <<>> /\ LastOf(roleRun.verdicts).err # NoError)
          => /\ roleRun.pc = "done"
             /\ roleRun.err = LastOf(roleRun.verdicts).err
             /\ LastOf(roleRun.calls).doc = LastOf(roleRun.verdicts).doc
             /\ Len(roleRun.calls) <= 2 * Len(roleRun.verdicts) - 1

\* The trust policy and the first managed policy passed, the second managed
\* policy does not match, and Handle returned after five IAM calls.
C22_Witness ==
    /\ roleRun.pc = "done"
    /\ Len(roleRun.verdicts) = 3
    /\ Len(roleRun.calls) = 5
    /\ roleRun.err # NoError
    /\ roleRun.err[1].msg = <<errPolicyDocumentMismatch>>
    /\ roleRun.todo # <<>>

(***************************************************************************)
(* validatePolicyDocument on documents that differ from the baseline in    *)
(* several places. The actual document is the resolved template changed    *)
(* by at most MaxEdits changes; a change removes or alters something the   *)
(* baseline requires, adds an element to a collection the baseline has, or *)
(* adds a field that the expected statement does not have.                 *)
(***************************************************************************)
MaxEdits == 2

EditKinds ==
    {"removeAction", "alterEffect", "alterVersion", "addAction", "addConditionKey",
     "addCondition", "addSubMap", "addPrincipal", "addResource", "addOtherList",
     "addStatement", "dropResource"}

extraMap == Ptr((extraConditionKey :> extraConditionValue))

\* The statement stmt after the change kind.
editStatement(stmt, kind) ==
    LET f == ListField(stmt)
        g == IF f = "Action" THEN "NotAction" ELSE "Action"
    IN  CASE kind = "removeAction" /\ stmt[f] # Nil /\ stmt[f][1] # <<>> ->
                [stmt EXCEPT ![f] = Ptr(Tail(stmt[f][1]))]
          [] kind = "alterEffect" ->
                [stmt EXCEPT !.Effect =
                    IF @ = Ptr(S("Allow")) THEN Ptr(S("Deny")) ELSE Ptr(S("Allow"))]
          [] kind = "dropResource" -> [stmt EXCEPT !.Resource = Nil]
          [] kind = "addAction" /\ stmt[f] # Nil ->
                [stmt EXCEPT ![f] = Ptr(stmt[f][1] \o <<extraAction>>)]
          [] kind = "addConditionKey" -> [stmt EXCEPT !.Condition = withExtras(stmt).Condition]
          [] kind = "addCondition" /\ stmt.Condition = Nil ->
                [stmt EXCEPT !.Condition = Ptr(rolePolicyCondition(extraMap, Nil))]
          [] kind = "addSubMap" /\ stmt.Condition # Nil ->
                [stmt EXCEPT !.Condition =
                    Ptr(rolePolicyCondition(
                            IF @[1].StringEquals = Nil THEN extraMap ELSE @[1].StringEquals,
                            IF @[1].StringLike = Nil THEN extraMap ELSE @[1].StringLike))]
          [] kind = "addPrincipal" /\ stmt.Principal = Nil ->
                [stmt EXCEPT !.Principal =
                    Ptr(rolePolicyPrincipal(Ptr(S("arn:aws:iam::1111111111:oidc-provider/other"))))]
          [] kind = "addResource" /\ stmt.Resource = Nil ->
                [stmt EXCEPT !.Resource = Ptr(S("*"))]
          [] kind = "addOtherList" /\ stmt[g] = Nil ->
                [stmt EXCEPT ![g] = Ptr(<<extraAction>>)]
          [] OTHER -> stmt

\* The document doc after the change kind at its statement i.
applyEdit(doc, kind, i) ==
    CASE kind = "alterVersion" -> [doc EXCEPT !.Version = Ptr(S("2008-10-17"))]
      [] kind = "addStatement" -> [doc EXCEPT !.Statement = @ \o <<extraStatement>>]
      [] i \in DOMAIN doc.Statement ->
            [doc EXCEPT !.Statement[i] = editStatement(doc.Statement[i], kind)]
      [] OTHER -> doc

\* The first document that the checker fetches.
DocFetch(name) ==
    /\ calls = 0
    /\ Fetch(name)

DocEdit(kind, i) ==
    /\ phase = "fetched"
    /\ edits < MaxEdits
    /\ applyEdit(document, kind, i) # document
    /\ document' = applyEdit(document, kind, i)
    /\ edits' = edits + 1
    /\ UNCHANGED <<baselineVars, envConfig, phase, target, extraDone, deficitDone, orderDone,
                   callVars, handleVars, codecVars, azureVars, gcpVars, roleRun, job>>

\* validatePolicyDocument is called once more with the same document, the
\* same baseline and the same context.
DocValidateAgain ==
    /\ phase = "validated"
    /\ calls < MaxCalls
    /\ LET expected == Expected(target)
           filled == fillDocument(expected, envConfig)
       IN  /\ \E order \in KeyOrders(ConditionKeys(document) \cup ConditionKeys(filled)) :
                changelog' = validatePolicyDocument(document, expected, envConfig, order)
           /\ IF target = "trust"
              THEN /\ constExpectedAssumeRolePolicyDocument' = filled
                   /\ UNCHANGED constExpectedPolicyDocuments
              ELSE /\ constExpectedPolicyDocuments' =
                        [constExpectedPolicyDocuments EXCEPT ![target] = filled]
                   /\ UNCHANGED constExpectedAssumeRolePolicyDocument
    /\ calls' = calls + 1
    /\ UNCHANGED <<envConfig, phase, inputVars, expectedBefore, handleVars, otherVars>>

NextDocument ==
    \/ \E name \in Targets : DocFetch(name)
    \/ \E kind \in EditKinds, i \in 1..2 : DocEdit(kind, i)
    \/ Validate
    \/ DocValidateAgain

SpecDocument == Init /\ [][NextDocument]_vars

\* Handle is past the wait: it reads the logs, or it has read them.
PastTheWait == gpc \in {"logs", "check", "delete", "panicked"} \/ logs # <<>>

(***************************************************************************)
(* C26: the logs of the pod are read only after the wait has read the      *)
(* phase Succeeded or Failed; the wait returns without error only with one *)
(* of the two phases, and when a Get of the pod fails it returns the error *)
(* at once, with the phase unknown, and Handle returns without reading     *)
(* the logs.                                                               *)
(***************************************************************************)
C26_LogsAfterTheWait ==
    /\ PastTheWait => podPhase \in {PodSucceeded, PodFailed}
    /\ (gpc = "done" /\ gcpTrace.created /\ gcpResult.err # ErrFailedToGetPod)
          => podPhase \in {PodSucceeded, PodFailed}
    /\ (gcpResult.returned /\ gcpResult.err = ErrFailedToGetPod)
          => (gcpTrace.created /\ podPhase = PodUnknown /\ logs = <<>> /\ gpc = "done")

\* The wait has found the pod running, has slept, has then read Succeeded,
\* and the logs have been read.
C26_Witness ==
    /\ gcpTrace.polls > 0
    /\ podPhase = PodSucceeded
    /\ Len(logs) = 1
    /\ gpc = "check"

(***************************************************************************)
(* C27: a pod of an earlier run that Handle finds is deleted before the    *)
(* new pod is created, and the new pod is created only if the delete       *)
(* succeeded; an error of the Get other than not-found ends Handle before  *)
(* any create; Handle waits and reads logs only after its own create.      *)
(***************************************************************************)
C27_StalePodReplaced ==
    /\ gcpTrace.created =>
          /\ gcpTrace.found \in {"exists", "notFound"}
          /\ gcpTrace.found = "exists" => gcpTrace.deletedOld
    /\ gcpTrace.found = "error" =>
          (~gcpTrace.created /\ gpc = "done" /\ gcpResult.err = errClient)
    /\ (gcpTrace.found = "exists" /\ ~gcpTrace.deletedOld) => gpc \in {"deleteOld", "done"}
    /\ (gpc = "wait" \/ PastTheWait) => gcpTrace.created

\* A run that found the pod of the run before it, deleted it, created its
\* own and read the logs of that one.
C27_Witness ==
    /\ gcpTrace.found = "exists"
    /\ gcpTrace.deletedOld
    /\ gcpTrace.created
    /\ logs # <<>>

(***************************************************************************)
(* bashScript, the script that the pod of the GCP role checker runs.  A    *)
(* role of the policy is a string of atoms in which "/" separates the      *)
(* segments and the atom "uxp_provider" stands for these letters.          *)
(***************************************************************************)
\* The number of bindings of the active identity that the policy lists.
MaxRoles == 2

Slash == "/"

UxpProvider == "uxp_provider"

\* What `gcloud projects get-iam-policy ... --format="value(bindings.role)"`
\* can print for a binding.
RoleNames ==
    {<<"projects", Slash, "p", Slash, "roles", Slash, UxpProvider, "_a">>,
     <<"projects", Slash, "p", Slash, "roles", Slash, UxpProvider>>,
     <<"roles", Slash, UxpProvider, "_b">>,
     <<"roles", Slash, "viewer">>,
     <<"roles", Slash, "not_", UxpProvider>>,
     <<UxpProvider, Slash, "roles", Slash, "editor">>}

RoleLists == SeqsUpTo(RoleNames, MaxRoles)

errMoreThanOneRole == S("More than one uxp_provider role found")

errNoRole == S("No uxp_provider role found")

\* sed 's|.*/||': the text after the last slash.
RECURSIVE sedLastSegment(_)
sedLastSegment(role) ==
    IF \E k \in DOMAIN role : role[k] = Slash
    THEN sedLastSegment(Tail(role))
    ELSE role

\* [[ "$ROLE_ID" = uxp_provider* ]]
hasUxpProviderPrefix(roleID) == roleID # <<>> /\ roleID[1] = UxpProvider

\* The line that `gcloud iam roles describe ... --format="value(includedPermissions)"`
\* prints for a role.
includedPermissions(roleID) == <<"includedPermissions of">> \o roleID

\* A loop that goes on after a second role with the prefix.
afterMatchGoOn(count) == "next"

\* The test on ROLE_COUNT inside the loop, after a role with the prefix.
afterMatch(count) == IF count > 1 THEN "exit" ELSE "next"

scriptExit(code, out, errLine) ==
    job' = [job EXCEPT !.pc = "exited", !.exit = code, !.stdout = out, !.stderr = errLine]

\* ROLES=$(gcloud projects get-iam-policy ...); ROLE_COUNT=0; SELECTED_ROLE_ID="".
ScriptListRoles(roles) ==
    /\ job.pc = "start"
    /\ job' = [job EXCEPT !.pc = "loop", !.ROLES = roles]
    /\ UNCHANGED <<baselineVars, envConfig, phase, inputVars, callVars, handleVars,
                   codecVars, azureVars, gcpVars, roleRun, edits>>

\* One pass of `for ROLE in $ROLES`.
ScriptLoop ==
    /\ job.pc = "loop"
    /\ job.next <= Len(job.ROLES)
    /\ LET ROLE_ID == sedLastSegment(job.ROLES[job.next])
       IN  IF hasUxpProviderPrefix(ROLE_ID)
           THEN IF afterMatch(job.ROLE_COUNT + 1) = "exit"
                THEN scriptExit(1, <<>>, <<errMoreThanOneRole>>)
                ELSE job' = [job EXCEPT !.ROLE_COUNT = @ + 1, !.SELECTED_ROLE_ID = ROLE_ID,
                                        !.next = @ + 1]
           ELSE job' = [job EXCEPT !.next = @ + 1]
    /\ UNCHANGED <<baselineVars, envConfig, phase, inputVars, callVars, handleVars,
                   codecVars, azureVars, gcpVars, roleRun, edits>>

\* if [[ $ROLE_COUNT -eq 1 ]] ... after the loop.
ScriptSelect ==
    /\ job.pc = "loop"
    /\ job.next > Len(job.ROLES)
    /\ IF job.ROLE_COUNT = 1
       THEN job' = [job EXCEPT !.pc = "describe"]
       ELSE scriptExit(1, <<>>, <<errNoRole>>)
    /\ UNCHANGED <<baselineVars, envConfig, phase, inputVars, callVars, handleVars,
                   codecVars, azureVars, gcpVars, roleRun, edits>>

\* gcloud iam roles describe "$SELECTED_ROLE_ID" ... || exit 1; exit 0
ScriptDescribe ==
    /\ job.pc = "describe"
    /\ \/ scriptExit(0, <<includedPermissions(job.SELECTED_ROLE_ID)>>, <<>>)
       \/ scriptExit(1, <<>>, <<S("ERROR: (gcloud.iam.roles.describe)")>>)
    /\ UNCHANGED <<baselineVars, envConfig, phase, inputVars, callVars, handleVars,
                   codecVars, azureVars, gcpVars, roleRun, edits>>

\* The pod is created again and the script starts over.
ScriptAgain ==
    /\ job.pc = "exited"
    /\ job' = [pc |-> "start", ROLES |-> <<>>, next |-> 1, ROLE_COUNT |-> 0, SELECTED_ROLE_ID |-> <<>>,
               stdout |-> <<>>, stderr |-> <<>>, exit |-> -1]
    /\ UNCHANGED <<baselineVars, envConfig, phase, inputVars, callVars, handleVars,
                   codecVars, azureVars, gcpVars, roleRun, edits>>

NextScript ==
    \/ \E roles \in RoleLists : ScriptListRoles(roles)
    \/ ScriptLoop
    \/ ScriptSelect
    \/ ScriptDescribe
    \/ ScriptAgain

SpecScript == Init /\ [][NextScript]_vars

\* The ID of a role: its last segment.
RoleID(role) ==
    LET slashes == {k \in DOMAIN role : role[k] = Slash}
        last == IF slashes = {} THEN 0 ELSE CHOOSE k \in slashes : \A l \in slashes : l <= k
    IN  SubSeq(role, last + 1, Len(role))

\* The roles of the policy whose ID starts with uxp_provider.
Candidates(roles) ==
    {roles[k] : k \in {l \in DOMAIN roles :
        Len(RoleID(roles[l])) > 0 /\ Head(RoleID(roles[l])) = UxpProvider}}

(***************************************************************************)
(* C28: the script prints the permissions of a role only when exactly one  *)
(* role of the policy has an ID that starts with uxp_provider, and then    *)
(* the permissions of that role; with no such role and with more than one  *)
(* it prints nothing on standard output, prints one line on standard       *)
(* error and exits with 1.                                                 *)
(***************************************************************************)
C28_OnlyTheSingleCandidate ==
    /\ job.stdout # <<>> =>
          /\ Cardinality(Candidates(job.ROLES)) = 1
          /\ \A role \in Candidates(job.ROLES) :
                job.stdout = <<<<"includedPermissions of">> \o RoleID(role)>>
    /\ job.pc = "exited" =>
          /\ Candidates(job.ROLES) = {} =>
                (job.exit = 1 /\ job.stdout = <<>> /\ job.stderr = <<errNoRole>>)
          /\ Cardinality(Candidates(job.ROLES)) > 1 =>
                (job.exit = 1 /\ job.stdout = <<>> /\ job.stderr = <<errMoreThanOneRole>>)
          /\ job.exit = 0 => job.stdout # <<>>

\* The policy lists a role without the prefix and one with it, and the
\* script has printed the permissions of the second.
C28_Witness ==
    /\ job.pc = "exited"
    /\ Len(job.ROLES) = 2
    /\ Cardinality(Candidates(job.ROLES)) = 1
    /\ job.ROLES[2] \in Candidates(job.ROLES)
    /\ job.exit = 0
    /\ job.stdout # <<>>

(***************************************************************************)
(* Properties of validatePolicyDocument on documents with several          *)
(* differences.                                                            *)
(***************************************************************************)
\* The positions at which the actual statement lacks something that the
\* expected statement at the same position requires.
DeficientStatements(A, R) ==
    {i \in DOMAIN R.Statement \cap DOMAIN A.Statement :
        StatementDeficit(A.Statement[i], R.Statement[i])}

\* The statements of A stand at the positions of the statements of R.
SamePositions(A, R) ==
    /\ Len(A.Statement) >= Len(R.Statement)
    /\ \A i \in DOMAIN R.Statement : A.Statement[i].SID = R.Statement[i].SID

\* The entries of the changelog that lie in statement i.
EntriesOf(cl, i) ==
    SelectSeq(cl, LAMBDA change :
        Len(change.Path) >= 2 /\ change.Path[1] = S("Statement")
                              /\ change.Path[2] = idstring(i - 1))

SeveralDeficient ==
    /\ Validated
    /\ SamePositions(document, Resolved)
    /\ Cardinality(DeficientStatements(document, Resolved)) > 1

(***************************************************************************)
(* C23 as stated: when several expected statements are deficient, every    *)
(* entry of the changelog lies in the first deficient statement.           *)
(***************************************************************************)
C23_FirstFailingStatementOnly ==
    SeveralDeficient =>
        LET first == CHOOSE i \in DeficientStatements(document, Resolved) :
                        \A j \in DeficientStatements(document, Resolved) : i <= j
        IN  changelog = EntriesOf(changelog, first)

(***************************************************************************)
(* C23 amended: the whole documents are compared at once; the changelog    *)
(* holds a delete or update entry in every deficient statement, the later  *)
(* ones included.                                                          *)
(***************************************************************************)
C23_EveryFailingStatementReported ==
    SeveralDeficient =>
        \A i \in DeficientStatements(document, Resolved) :
            \E n \in DOMAIN EntriesOf(changelog, i) :
                EntriesOf(changelog, i)[n].Type \in {DELETE, UPDATE}

\* Both statements of a managed policy are deficient and the changelog has
\* entries in both.
C23_Witness ==
    /\ SeveralDeficient
    /\ DeficientStatements(document, Resolved) = {1, 2}
    /\ EntriesOf(changelog, 1) # <<>>
    /\ EntriesOf(changelog, 2) # <<>>

\* The entries that the filter is to remove: a create of an element of an
\* action list or of a key of a condition map.
Eligible(change) ==
    /\ change.Type = CREATE
    /\ change.Path[1] = S("Statement")
    /\ \/ /\ Len(change.Path) = 4
          /\ change.Path[3] \in {S("Action"), S("NotAction")}
       \/ /\ Len(change.Path) = 5
          /\ change.Path[3] = S("Condition")
          /\ change.Path[4] \in {S("StringEquals"), S("StringLike")}

Kept(raw) == SelectSeq(raw, LAMBDA change : ~Eligible(change))

(***************************************************************************)
(* C24: the changelog that validatePolicyDocument returns is the raw       *)
(* changelog of the comparison without its create entries at               *)
(* Statement/i/Action/k, Statement/i/NotAction/k and                       *)
(* Statement/i/Condition/sub-map/key; every other entry is kept, in the    *)
(* order of the raw changelog.                                             *)
(***************************************************************************)
C24_FilterRemovesExactly ==
    Validated =>
        \E order \in MapOrders(document, expectedBefore) :
            changelog = Kept(Diff(Resolved, document, order))

\* The raw changelog has an entry that the filter removes and two that it
\* keeps, one of them a create.
C24_Witness ==
    /\ Validated
    /\ Len(changelog) > 1
    /\ \E n \in DOMAIN changelog : changelog[n].Type = CREATE
    /\ \E order \in MapOrders(document, expectedBefore) :
          /\ changelog = Kept(Diff(Resolved, document, order))
          /\ Len(Diff(Resolved, document, order)) > Len(changelog)

\* The fields of a statement, as paths below the statement, that the actual
\* statement a has and the expected statement e does not have.
AddedFields(a, e) ==
    {<<S(f)>> : f \in {g \in {"Condition", "Principal", "Resource", "Action", "NotAction"} :
                          e[g] = Nil /\ a[g] # Nil}}
    \cup {<<S("Condition"), S(m)>> : m \in {g \in {"StringEquals", "StringLike"} :
                          /\ e.Condition # Nil /\ a.Condition # Nil
                          /\ e.Condition[1][g] = Nil /\ a.Condition[1][g] # Nil}}

(***************************************************************************)
(* C25: an actual statement with a field that the expected statement at    *)
(* its position does not have (a Condition, a second sub-map of the        *)
(* Condition, a Principal, a Resource, the other action list) fails the    *)
(* validation: the changelog holds an entry for that field, which the      *)
(* filter keeps.                                                           *)
(***************************************************************************)
C25_AddedFieldFails ==
    (Validated /\ SamePositions(document, Resolved)) =>
        \A i \in DOMAIN Resolved.Statement :
            \A path \in AddedFields(document.Statement[i], Resolved.Statement[i]) :
                /\ changelog # <<>>
                /\ EntryAt(changelog, {CREATE, UPDATE}, <<S("Statement"), idstring(i - 1)>> \o path)

\* A StringLike map next to the expected StringEquals map, in a document
\* that is otherwise the resolved baseline with one more action.
C25_Witness ==
    /\ Validated
    /\ target = "policy"
    /\ AddedFields(document.Statement[2], Resolved.Statement[2]) = {<<S("Condition"), S("StringLike")>>}
    /\ Len(document.Statement[2].Action[1]) > Len(Resolved.Statement[2].Action[1])
    /\ Len(changelog) = 1

(***************************************************************************)
(* Properties of the placeholder resolution.                               *)
(***************************************************************************)
\* The string s with every placeholder replaced by its value in context c.
Substituted(s, c) ==
    Concat([k \in DOMAIN s |->
        CASE s[k] = "${CLUSTER_NAME}" -> c.ClusterName
          [] s[k] = "${ACCOUNT_ID}" -> c.AccountID
          [] s[k] = "${OIDC_ID}" -> c.OIDCURL
          [] OTHER -> <<s[k]>>])

\* The map after has the entries of the map before, keys and values
\* substituted.
SubstitutedMap(before, after, c) ==
    /\ DOMAIN after = {Substituted(k, c) : k \in DOMAIN before}
    /\ \A k \in DOMAIN before : after[Substituted(k, c)] = Substituted(before[k], c)

SubstitutedMapPtr(before, after, c) ==
    IF before = Nil THEN after = Nil
    ELSE after # Nil /\ SubstitutedMap(before[1], after[1], c)

SubstitutedStringPtr(before, after, c) ==
    IF before = Nil THEN after = Nil ELSE after = Ptr(Substituted(before[1], c))

HasPlaceholder(s) ==
    \E k \in DOMAIN s : s[k] \in {"${CLUSTER_NAME}", "${ACCOUNT_ID}", "${OIDC_ID}"}

(***************************************************************************)
(* C29: the call of validatePolicyDocument leaves the expected document    *)
(* with Version, Effect, SID, Action and NotAction as they were and with   *)
(* Principal.Federated, Resource and the keys and values of                *)
(* Condition.StringEquals and Condition.StringLike holding the context     *)
(* value in the place of every placeholder.  (The values of the contexts   *)
(* hold no placeholder.)                                                   *)
(***************************************************************************)
C29_ResolutionFrame ==
    (Validated /\ calls = 1) =>
        /\ Expected(target).Version = expectedBefore.Version
        /\ Len(Expected(target).Statement) = Len(expectedBefore.Statement)
        /\ \A i \in DOMAIN expectedBefore.Statement :
              LET before == expectedBefore.Statement[i]
                  after == Expected(target).Statement[i]
              IN  /\ after.Effect = before.Effect
                  /\ after.SID = before.SID
                  /\ after.Action = before.Action
                  /\ after.NotAction = before.NotAction
                  /\ SubstitutedStringPtr(before.Resource, after.Resource, envConfig)
                  /\ IF before.Principal = Nil THEN after.Principal = Nil
                     ELSE /\ after.Principal # Nil
                          /\ SubstitutedStringPtr(before.Principal[1].Federated,
                                                  after.Principal[1].Federated, envConfig)
                  /\ IF before.Condition = Nil THEN after.Condition = Nil
                     ELSE /\ after.Condition # Nil
                          /\ SubstitutedMapPtr(before.Condition[1].StringEquals,
                                               after.Condition[1].StringEquals, envConfig)
                          /\ SubstitutedMapPtr(before.Condition[1].StringLike,
                                               after.Condition[1].StringLike, envConfig)

\* The trust policy has been resolved: its Federated and the key of its
\* StringLike map held placeholders.
C29_Witness ==
    /\ Validated
    /\ calls = 1
    /\ target = "trust"
    /\ HasPlaceholder(expectedBefore.Statement[1].Principal[1].Federated[1])
    /\ \E k \in DOMAIN expectedBefore.Statement[1].Condition[1].StringLike[1] : HasPlaceholder(k)
    /\ Expected(target) # expectedBefore

(***************************************************************************)
(* C30: a call of validatePolicyDocument that follows a call with the same *)
(* context, the same baseline and the same document returns the changelog  *)
(* that the call before it returned.  (The values of the contexts hold no  *)
(* placeholder.)                                                           *)
(***************************************************************************)
C30_Repeatable ==
    [][(phase = "validated" /\ phase' = "validated" /\ calls' = calls + 1)
          => changelog' = changelog]_vars

\* A second call on a document that lacks an action of a baseline whose
\* Resource held placeholders has returned a changelog that is not empty.
C30_Witness ==
    /\ Validated
    /\ calls > 1
    /\ target = "policy"
    /\ changelog # <<>>
    /\ Expected(target) # Template(target)

====
